---------------------------- MODULE Spec2Model ----------------------------
(***************************************************************************)
(* A model of the audio analysis engine of the sampler:                    *)
(*   - AudioAnalysisCore (src/lib/media-library.ts, lines 185-936): the    *)
(*     engine life cycle (initialize / cleanup) and the three analyses     *)
(*     detectOnsets, detectBPM and detectSongStructure with their helpers; *)
(*   - the worker that hosts one core behind a message protocol            *)
(*     (src/QUEUE_SLICE_SYSTEM.md, lines 255-369).                         *)
(*   - the client of that worker, AudioAnalysisWorkerClient                *)
(*     (src/lib/media-library.ts, lines 970-1129): its pending table and   *)
(*     the handler of the worker's messages.                               *)
(*                                                                         *)
(* JavaScript runs one task at a time.  Every action below is one          *)
(* synchronous stretch of code: from the point where a function is called  *)
(* or resumed up to its next `await` (or its return).  Continuations of    *)
(* settled promises are queued in microQ and run before any new task       *)
(* (a timer, a message, a call from outside) is started.                   *)
(*                                                                         *)
(* Numbers that are reals in the code are kept exact here: a time in       *)
(* seconds, a progress value and a mean energy are fractions               *)
(* <<numerator, denominator>>, a threshold multiplier is given in tenths.  *)
(***************************************************************************)
EXTENDS Integers, Sequences, FiniteSets, TLC

(***************************************************************************)
(* Program constants.                                                      *)
(***************************************************************************)
frameSize == 2048
hopSize == 512
onsetChunkSize == 10
structureChunkSize == 5
chromaSize == 12
mfccSize == 13
defaultBpm == 120

(***************************************************************************)
(* Bounds of the model.                                                    *)
(***************************************************************************)
MaxFrames == 7
MaxSections == 3
MaxCalls == 3
MaxAttempts == 2
MaxRequests == 3
MaxOnsetFrames == 11
MaxProgress == 1

(***************************************************************************)
(* The state.                                                              *)
(*   env            the host: whether WebAssembly exists and which API the *)
(*                  essentia.js module offers ("init" or "legacy")         *)
(*   essentiaLoaded the module-level variable Essentia is set              *)
(*   cores          the AudioAnalysisCore objects: essentia (a handle, 0   *)
(*                  for null), isInitialized, initializationPromise (an    *)
(*                  attempt, 0 for null)                                   *)
(*   attempts       the promises made by initialize(), in creation order   *)
(*   handles        the engine handles made by Essentia.init(), in order   *)
(*   calls          the method calls on cores that are running or done     *)
(*   microQ         the continuations ready to run, oldest first           *)
(*   input          the audio buffer and options given to the analyses,    *)
(*                  and what the external engine does on each frame        *)
(*   workerCore     the worker's module-level variable core (0 for null)   *)
(*   handlers       the worker's message handlers, by request id           *)
(*   outbox         the messages the worker has posted, oldest first       *)
(*   client         the AudioAnalysisWorkerClient: nextId, the ids of the  *)
(*                  pending table, what has become of each request's       *)
(*                  promise, how often its onProgress was called, and how  *)
(*                  many of the worker's messages have reached it          *)
(***************************************************************************)
VARIABLES env, essentiaLoaded, cores, attempts, handles, calls, microQ, input,
          workerCore, handlers, outbox, client

vars == <<env, essentiaLoaded, cores, attempts, handles, calls, microQ, input,
          workerCore, handlers, outbox, client>>

(***************************************************************************)
(* Arithmetic helpers.                                                     *)
(***************************************************************************)
Min(a, b) == IF a <= b THEN a ELSE b
Max(a, b) == IF a >= b THEN a ELSE b
Abs(a) == IF a < 0 THEN -a ELSE a

\* Math.sqrt on the perfect squares the model's vectors produce.
Sqrt(n) == CHOOSE r \in 0..n : r * r = n

\* new Array(k).fill(0)
Zeros(k) == [j \in 1..k |-> 0]

\* Fractions <<numerator, denominator>> with a positive denominator.
RatLeq(a, b) == a[1] * b[2] <= b[1] * a[2]
RatEq(a, b) == a[1] * b[2] = b[1] * a[2]

\* The sum of the elements first..last of s, by halves.
RECURSIVE sumRange(_, _, _)
sumRange(s, first, last) ==
    IF first > last THEN 0
    ELSE IF first = last THEN s[first]
    ELSE LET middle == (first + last) \div 2
         IN  sumRange(s, first, middle) + sumRange(s, middle + 1, last)

SumSeq(s) == sumRange(s, 1, Len(s))

\* Array.prototype.sort((a, b) => a - b): insertion into a sorted prefix.
RECURSIVE InsertSorted(_, _)
InsertSorted(x, s) ==
    IF s = <<>> THEN <<x>>
    ELSE IF x <= Head(s) THEN <<x>> \o s
    ELSE <<Head(s)>> \o InsertSorted(x, Tail(s))

RECURSIVE SortAscending(_)
SortAscending(s) == IF s = <<>> THEN <<>> ELSE InsertSorted(Head(s), SortAscending(Tail(s)))

(***************************************************************************)
(* calculateThreshold(values, multiplier): median + multiplier * MAD.      *)
(* The multiplier is given in tenths and the result is ten times the       *)
(* threshold, so that `v > threshold` is `10 * v > calculateThreshold`.    *)
(***************************************************************************)
Median(values) == SortAscending(values)[(Len(values) \div 2) + 1]

calculateThreshold(values, multiplier10) ==
    IF Len(values) = 0 THEN 0
    ELSE LET median == Median(values)
             deviations == [j \in 1..Len(values) |-> Abs(values[j] - median)]
             mad == SortAscending(deviations)[(Len(deviations) \div 2) + 1]
         IN  10 * median + multiplier10 * mad

(***************************************************************************)
(* cosineSimilarity(a, b) and buildSimilarityMatrix(features).             *)
(***************************************************************************)
cosineSimilarity(a, b) ==
    IF Len(a) # Len(b) THEN 0
    ELSE LET dotProduct == SumSeq([j \in 1..Len(a) |-> a[j] * b[j]])
             normA == SumSeq([j \in 1..Len(a) |-> a[j] * a[j]])
             normB == SumSeq([j \in 1..Len(b) |-> b[j] * b[j]])
             denominator == Sqrt(normA) * Sqrt(normB)
         IN  IF denominator = 0 THEN 0 ELSE dotProduct \div denominator

buildSimilarityMatrix(features) ==
    [i \in 1..Len(features) |->
        [j \in 1..Len(features) |-> cosineSimilarity(features[i], features[j])]]

(***************************************************************************)
(* detectBoundaries, in its four parts: the checkerboard novelty function, *)
(* the peak picking, the merge down to maxSections and the conversion to   *)
(* SectionBoundary objects.  Frame indices are 0-based as in the code;     *)
(* sequences are 1-based, so boundaries[i] of the code is b[i + 1].        *)
(***************************************************************************)
kernelSizeOf(sampleRate, hop) == (3 * sampleRate) \div hop

noveltyAt(similarityMatrix, i, kernelSize) ==
    SumSeq([a \in 1..(2 * kernelSize + 1) |->
        SumSeq([b \in 1..(2 * kernelSize + 1) |->
            LET k == a - kernelSize - 1
                l == b - kernelSize - 1
                sign == IF k * l >= 0 THEN 1 ELSE -1
            IN  sign * similarityMatrix[i + k + 1][i + l + 1]])])

noveltyFunctionOf(similarityMatrix, kernelSize) ==
    LET n == Len(similarityMatrix)
    IN  [x \in 1..Max(0, n - 2 * kernelSize) |->
            noveltyAt(similarityMatrix, kernelSize + x - 1, kernelSize)]

\* The body of the peak loop for index i of the novelty function.
isPeak(values, threshold10, i) ==
    /\ 10 * values[i + 1] > threshold10
    /\ values[i + 1] > values[i]
    /\ values[i + 1] > values[i + 2]

\* The acceptance test without the distance to the boundary accepted before.
acceptsBoundaryNearLast(boundaries, i, kernelSize, sampleRate, hop, duration, minSectionDuration) ==
    (i + kernelSize) * hop * duration[2]
        < (duration[1] - minSectionDuration * duration[2]) * sampleRate

acceptsBoundary(boundaries, i, kernelSize, sampleRate, hop, duration, minSectionDuration) ==
    LET last == boundaries[Len(boundaries)]
    IN  \* timeInSeconds >= minTime
        /\ (i + kernelSize) * hop >= last * hop + minSectionDuration * sampleRate
        \* timeInSeconds < duration - minSectionDuration
        /\ (i + kernelSize) * hop * duration[2]
              < (duration[1] - minSectionDuration * duration[2]) * sampleRate

RECURSIVE pickBoundaries(_, _, _, _, _, _, _, _, _)
pickBoundaries(nov, threshold10, i, boundaries, kernelSize, sampleRate, hop, duration, minSectionDuration) ==
    IF i >= Len(nov) - 1 THEN boundaries
    ELSE pickBoundaries(nov, threshold10, i + 1,
            IF /\ isPeak(nov, threshold10, i)
               /\ acceptsBoundary(boundaries, i, kernelSize, sampleRate, hop,
                                  duration, minSectionDuration)
            THEN Append(boundaries, i + kernelSize)
            ELSE boundaries,
            kernelSize, sampleRate, hop, duration, minSectionDuration)

candidateBoundaries(similarityMatrix, sampleRate, hop, duration, minSectionDuration) ==
    LET n == Len(similarityMatrix)
        kernelSize == kernelSizeOf(sampleRate, hop)
        nov == noveltyFunctionOf(similarityMatrix, kernelSize)
        threshold10 == calculateThreshold(nov, 3)
    IN  Append(pickBoundaries(nov, threshold10, 1, <<0>>, kernelSize, sampleRate,
                              hop, duration, minSectionDuration),
               n - 1)

\* The inner for loop of the merge: the first index with the smallest gap, -1 if none.
RECURSIVE scanMinGap(_, _, _, _)
scanMinGap(boundaries, i, minDistance, minIndex) ==
    IF i >= Len(boundaries) - 1 THEN minIndex
    ELSE LET distance == boundaries[i + 2] - boundaries[i + 1]
         IN  IF minIndex = -1 \/ distance < minDistance
             THEN scanMinGap(boundaries, i + 1, distance, i)
             ELSE scanMinGap(boundaries, i + 1, minDistance, minIndex)

minGapIndex(boundaries) == scanMinGap(boundaries, 0, 0, -1)

\* boundaries.splice(index, 1)
splice1(s, index) == [j \in 1..(Len(s) - 1) |-> IF j <= index THEN s[j] ELSE s[j + 1]]

\* The loop condition with the budget one too wide.
overBudgetWide(boundaries, maxSections) == Len(boundaries) > maxSections + 2

\* while (boundaries.length > maxSections + 1)
overBudget(boundaries, maxSections) == Len(boundaries) > maxSections + 1

mergeStep(boundaries) == splice1(boundaries, minGapIndex(boundaries) + 1)

RECURSIVE mergeBoundaries(_, _)
mergeBoundaries(boundaries, maxSections) ==
    IF overBudget(boundaries, maxSections) /\ minGapIndex(boundaries) >= 0
    THEN mergeBoundaries(mergeStep(boundaries), maxSections)
    ELSE boundaries

\* The number of passes of the while loop.
RECURSIVE mergePasses(_, _)
mergePasses(boundaries, maxSections) ==
    IF overBudget(boundaries, maxSections) /\ minGapIndex(boundaries) >= 0
    THEN 1 + mergePasses(mergeStep(boundaries), maxSections)
    ELSE 0

\* Math.floor(time * sampleRate) for time = (frame * hop) / sampleRate.  The
\* division and the multiplication each round to a double, so the product is
\* frame * hop or just below it; input.fpLoss names the frames where it is below.
sampleIndexOf(frame, hop) ==
    IF frame \in input.fpLoss THEN frame * hop - 1 ELSE frame * hop

NoLabel == [name |-> "", index |-> 0]

toSections(boundaries, sampleRate, hop) ==
    [i \in 1..(Len(boundaries) - 1) |->
        LET startFrame == boundaries[i]
            endFrame == boundaries[i + 1]
        IN  [startSample |-> sampleIndexOf(startFrame, hop),
             endSample |-> sampleIndexOf(endFrame, hop),
             startTime |-> <<startFrame * hop, sampleRate>>,
             endTime |-> <<endFrame * hop, sampleRate>>,
             label |-> NoLabel,
             confidence |-> <<0, 1>>]]

detectBoundaries(similarityMatrix, energyProfile, sampleRate, hop, duration, maxSections, minSectionDuration) ==
    toSections(
        mergeBoundaries(
            candidateBoundaries(similarityMatrix, sampleRate, hop, duration,
                                minSectionDuration),
            maxSections),
        sampleRate, hop)

(***************************************************************************)
(* labelSections(boundaries, energyProfile, duration).                     *)
(***************************************************************************)
\* Math.floor(time * 44.1)
approxFrameOf(time) == (time[1] * 441) \div (time[2] * 10)

sectionEnergyOf(boundary, energyProfile) ==
    LET startFrame == approxFrameOf(boundary.startTime)
        endFrame == approxFrameOf(boundary.endTime)
        last == Min(endFrame, Len(energyProfile)) - 1
        count == IF last >= startFrame THEN last - startFrame + 1 ELSE 0
        sum == SumSeq([x \in 1..count |-> energyProfile[startFrame + x]])
    IN  IF count > 0 THEN <<sum, count>> ELSE <<0, 1>>

RECURSIVE maxEnergyOf(_)
maxEnergyOf(energies) ==
    IF Len(energies) = 1 THEN energies[1]
    ELSE LET rest == maxEnergyOf(Tail(energies))
         IN  IF RatLeq(rest, energies[1]) THEN energies[1] ELSE rest

normalizedEnergy(e, maxEnergy) ==
    IF maxEnergy[1] > 0 THEN <<e[1] * maxEnergy[2], e[2] * maxEnergy[1]>> ELSE <<0, 1>>

\* position = startTime / duration compared with tenths / 10.  A zero duration
\* makes position NaN (0 / 0, no comparison holds) or Infinity.
positionBelow(startTime, duration, tenths) ==
    /\ duration[1] > 0
    /\ 10 * startTime[1] * duration[2] < tenths * startTime[2] * duration[1]

positionAbove(startTime, duration, tenths) ==
    IF duration[1] > 0
    THEN 10 * startTime[1] * duration[2] > tenths * startTime[2] * duration[1]
    ELSE startTime[1] > 0

\* The rules with those on the energy before those on the position.
labelNameOfEnergyFirst(index, count, energy, startTime, duration) ==
    IF 10 * energy[1] > 7 * energy[2] THEN "Chorus"
    ELSE IF 10 * energy[1] > 4 * energy[2] THEN "Verse"
    ELSE IF index = 0 /\ positionBelow(startTime, duration, 1) THEN "Intro"
    ELSE IF index = count - 1 /\ positionAbove(startTime, duration, 8) THEN "Outro"
    ELSE IF 10 * energy[1] < 3 * energy[2]
         THEN (IF positionAbove(startTime, duration, 5) THEN "Bridge" ELSE "Break")
    ELSE "Verse"

labelNameOf(index, count, energy, startTime, duration) ==
    IF index = 0 /\ positionBelow(startTime, duration, 1) THEN "Intro"
    ELSE IF index = count - 1 /\ positionAbove(startTime, duration, 8) THEN "Outro"
    ELSE IF 10 * energy[1] > 7 * energy[2] THEN "Chorus"
    ELSE IF 10 * energy[1] > 4 * energy[2] THEN "Verse"
    ELSE IF 10 * energy[1] < 3 * energy[2]
         THEN (IF positionAbove(startTime, duration, 5) THEN "Bridge" ELSE "Break")
    ELSE "Verse"

labelSections(boundaries, energyProfile, duration) ==
    IF Len(boundaries) = 0 THEN boundaries
    ELSE LET sectionEnergies ==
                 [i \in 1..Len(boundaries) |-> sectionEnergyOf(boundaries[i], energyProfile)]
             maxEnergy == maxEnergyOf(sectionEnergies)
         IN  [i \in 1..Len(boundaries) |->
                 LET energy == normalizedEnergy(sectionEnergies[i], maxEnergy)
                 IN  [boundaries[i] EXCEPT
                        !.label = [name |-> labelNameOf(i - 1, Len(boundaries), energy,
                                                        boundaries[i].startTime, duration),
                                   index |-> i],
                        !.confidence = energy]]

(***************************************************************************)
(* The audio buffer.  The model gives each frame of the buffer one of a    *)
(* few contents (FrameKinds) and fixes what the engine and the code        *)
(* compute from a frame of that content:                                   *)
(*   kind 0  silence                                                       *)
(*   kind 1  a tone of pitch class 1, RMS 1                                *)
(*   kind 2  a tone of pitch class 2, RMS 2                                *)
(***************************************************************************)
FrameKinds == 0..2

unitVector(size, at) == [j \in 1..size |-> IF j = at THEN 1 ELSE 0]

\* Chromagram of a frame of this kind.
kindChroma(kind) == IF kind = 0 THEN Zeros(chromaSize) ELSE unitVector(chromaSize, kind)

\* Math.sqrt(sumSquared / frame.length) of a frame of this kind.
kindRms(kind) == kind

\* Math.abs of the first 12 samples of a frame of this kind.
kindHead(kind) == IF kind = 0 THEN Zeros(chromaSize) ELSE unitVector(chromaSize, kind + 2)

\* The MFCC coefficients of a frame of this kind.
kindMfcc(kind) == [j \in 1..mfccSize |-> kind]

\* What the engine does on one frame: arrayToVector throws (conv), Chromagram
\* throws or returns a vector that is not of length 12 (chroma = "fail"), the
\* MFCC pipeline returns an empty array ("empty"), throws ("throw"), throws
\* together with the RMS fallback ("throwRms").
NoFault == [conv |-> FALSE, chroma |-> "ok", mfcc |-> "ok"]

\* Math.floor((audioVector.length - frameSize) / hopSize)
numFramesOf(length) == (length - frameSize) \div hopSize

(***************************************************************************)
(* One pass of the frame loop of detectSongStructure: frame i of the       *)
(* buffer, appended to the three feature sequences.  alive says whether    *)
(* this.essentia is an engine (a call on null throws a TypeError, which    *)
(* the same catch blocks handle).                                          *)
(***************************************************************************)
\* The pass without the length test of line 593 on what Chromagram returned.
frameFeaturesUnchecked(kind, fault, alive) ==
    IF fault.conv \/ ~alive
    THEN [chroma |-> kindHead(kind),
          mfcc |-> [j \in 1..mfccSize |-> IF j = 2 THEN kindRms(kind) ELSE 0],
          energy |-> kindRms(kind)]
    ELSE [chroma |-> IF fault.chroma = "ok" THEN kindChroma(kind) ELSE <<>>,
          mfcc |-> CASE fault.mfcc = "ok" -> kindMfcc(kind)
                     [] fault.mfcc = "empty" -> Zeros(mfccSize)
                     [] fault.mfcc = "throw" -> <<kindRms(kind)>>
                     [] OTHER -> Zeros(mfccSize),
          energy |-> kindRms(kind)]

frameFeatures(kind, fault, alive) ==
    IF fault.conv \/ ~alive
    THEN [chroma |-> kindHead(kind),
          mfcc |-> [j \in 1..mfccSize |-> IF j = 2 THEN kindRms(kind) ELSE 0],
          energy |-> kindRms(kind)]
    ELSE [chroma |-> IF fault.chroma = "ok" THEN kindChroma(kind) ELSE Zeros(chromaSize),
          mfcc |-> CASE fault.mfcc = "ok" -> kindMfcc(kind)
                     [] fault.mfcc = "empty" -> Zeros(mfccSize)
                     [] fault.mfcc = "throw" -> <<kindRms(kind)>>
                     [] OTHER -> Zeros(mfccSize),
          energy |-> kindRms(kind)]

\* The frame loop from frame i up to its next await (the frame where it stops
\* is the result's i) or up to numFrames.
RECURSIVE extractFrames(_, _, _, _)
extractFrames(f, numFrames, alive, first) ==
    IF f.i >= numFrames THEN f
    ELSE IF ~first /\ f.i > 0 /\ f.i % structureChunkSize = 0 THEN f
    ELSE LET x == frameFeatures(input.frames[f.i + 1], input.faults[f.i + 1], alive)
         IN  extractFrames([i |-> f.i + 1,
                            chroma |-> Append(f.chroma, x.chroma),
                            mfcc |-> Append(f.mfcc, x.mfcc),
                            energy |-> Append(f.energy, x.energy)],
                           numFrames, alive, FALSE)

\* Lines 646-671: the similarity matrix, the boundaries and their labels.
analyseFeatures(chromaFeatures, energyProfile) ==
    labelSections(
        detectBoundaries(buildSimilarityMatrix(chromaFeatures), energyProfile,
                         input.sampleRate, hopSize, input.duration,
                         input.maxSections, input.minSectionDuration),
        energyProfile, input.duration)

(***************************************************************************)
(* Calls, attempts and handles.                                            *)
(***************************************************************************)
CallIds == 1..Max(MaxCalls, MaxRequests)

\* A call slot that holds no call.  pc is where the call stands: "idle",
\* "awaitInit" (awaiting the promise of initialize), "frames" (awaiting the
\* timer of the frame loop of detectSongStructure), "onsetFrames" (the same in
\* detectOnsets), "tempo" (awaiting the timer of detectBPM), "running", "done".
\* A time in seconds given as an option is in milliseconds (minDistanceMs), a
\* sensitivity in tenths.  previousSpectrum is <<>> for null.
NoCall ==
    [op |-> "none", core |-> 0, owner |-> "none", pc |-> "idle",
     outcome |-> "none", error |-> "none", awaiting |-> 0, started |-> FALSE,
     i |-> 0, chroma |-> <<>>, mfcc |-> <<>>, energy |-> <<>>,
     progress |-> <<>>, tried |-> <<>>, labeled |-> FALSE,
     boundaries |-> <<>>, bpm |-> 0, confidence |-> 0,
     sensitivity10 |-> 0, minDistanceMs |-> 0, onsetFunction |-> <<>>,
     previousSpectrum |-> <<>>, timestamps |-> <<>>, times |-> <<>>]

NoCore == [essentia |-> 0, isInitialized |-> FALSE, initializationPromise |-> 0]

Settled(p) == attempts[p].pc \in {"resolved", "rejected"}

\* A promise settles: the continuations of the calls awaiting it become ready.
\* A call that settles queues the continuation of the handler awaiting it.
queueOf(c, call) == IF call.owner = "handler" THEN <<c>> ELSE <<>>

\* ensureInitialized() throws
ensureInitializedThrows(k) == ~cores[k].isInitialized \/ cores[k].essentia = 0

isAvailable(k) == cores[k].isInitialized /\ cores[k].essentia # 0

(***************************************************************************)
(* initialize(), lines 194-271.  The async function in it runs at once,    *)
(* up to its first await: the import of the module when Essentia is not    *)
(* loaded, Essentia.init() on the "init" API, none on the "legacy" API     *)
(* (new Essentia(EssentiaWASM) is synchronous).  A throw before the first  *)
(* await runs the catch block (initializationPromise = null) before        *)
(* initialize() assigns the returned promise to initializationPromise.     *)
(***************************************************************************)
\* The engine is made and stored, but the flag is not set.
engineReadyUnflagged(k, p) ==
    /\ handles' = Append(handles, "live")
    /\ cores' = [cores EXCEPT ![k].essentia = Len(handles) + 1,
                              ![k].initializationPromise = p]

\* The engine is made: this.essentia = ...; this.isInitialized = true.
engineReady(k, p) ==
    /\ handles' = Append(handles, "live")
    /\ cores' = [cores EXCEPT ![k].essentia = Len(handles) + 1,
                              ![k].isInitialized = TRUE,
                              ![k].initializationPromise = p]

\* The outer catch block of an attempt that has awaited: the promise is reset.
attemptFails(k) ==
    /\ cores' = [cores EXCEPT ![k].initializationPromise = 0]
    /\ UNCHANGED handles

\* Lines 243-261 run by attempt p of core k: `base` is the attempts with p in
\* it, `awaited` whether the attempt has awaited before (if not, initialize()
\* assigns the promise after the catch block has run).
\* how: "made" (new Essentia(...) returns), "throws", "pending" (Essentia.init()
\* returns a promise, which is awaited).
EngineInitChoices == {"made", "throws", "pending"}

engineInitStep(base, k, p, waiters, how, awaited) ==
    CASE how = "pending" ->
           /\ env.api = "init"
           /\ attempts' = [base EXCEPT ![p] = [core |-> k, pc |-> "init", waiters |-> waiters]]
           /\ cores' = [cores EXCEPT ![k].initializationPromise = p]
           /\ UNCHANGED <<handles, microQ>>
      [] how = "made" ->
           /\ env.api = "legacy"
           /\ attempts' = [base EXCEPT ![p] = [core |-> k, pc |-> "resolved", waiters |-> <<>>]]
           /\ engineReady(k, p)
           /\ microQ' = microQ \o waiters
      [] OTHER ->
           /\ attempts' = [base EXCEPT ![p] = [core |-> k, pc |-> "rejected", waiters |-> <<>>]]
           /\ cores' = [cores EXCEPT ![k].initializationPromise = IF awaited THEN 0 ELSE p]
           /\ microQ' = microQ \o waiters
           /\ UNCHANGED handles

\* initialize() without its look at the promise of an earlier call.
memoizedNever(k) == 0

\* `if (this.initializationPromise) return this.initializationPromise`
memoized(k) == cores[k].initializationPromise

\* Call c runs initialize() on core k.
initializeCall(c, k, owner) ==
    LET call == [NoCall EXCEPT !.op = "initialize", !.core = k, !.owner = owner]
        p == memoized(k)
        new == Len(attempts) + 1
        fresh == [core |-> k, pc |-> "import", waiters |-> <<c>>]
    IN  IF cores[k].isInitialized
        THEN /\ calls' = [calls EXCEPT ![c] = [call EXCEPT !.pc = "done", !.outcome = "resolved"]]
             /\ microQ' = microQ \o queueOf(c, call)
             /\ UNCHANGED <<essentiaLoaded, cores, attempts, handles>>
        ELSE IF p # 0
        THEN /\ calls' = [calls EXCEPT ![c] = [call EXCEPT !.pc = "awaitInit", !.awaiting = p]]
             /\ IF Settled(p)
                THEN microQ' = Append(microQ, c) /\ UNCHANGED attempts
                ELSE /\ attempts' = [attempts EXCEPT ![p].waiters = Append(@, c)]
                     /\ UNCHANGED microQ
             /\ UNCHANGED <<essentiaLoaded, cores, handles>>
        ELSE /\ new <= MaxAttempts
             /\ calls' = [calls EXCEPT ![c] = [call EXCEPT !.pc = "awaitInit", !.awaiting = new,
                                                            !.started = TRUE]]
             /\ UNCHANGED essentiaLoaded
             /\ IF ~env.wasm
                THEN engineInitStep(Append(attempts, fresh), k, new, <<c>>, "throws", FALSE)
                ELSE IF ~essentiaLoaded
                THEN /\ attempts' = Append(attempts, fresh)
                     /\ cores' = [cores EXCEPT ![k].initializationPromise = new]
                     /\ UNCHANGED <<handles, microQ>>
                ELSE \E how \in EngineInitChoices :
                        engineInitStep(Append(attempts, fresh), k, new, <<c>>, how, FALSE)

\* The import awaited by attempt p settles (lines 217-241).
importSettles(p, ok, how) ==
    LET k == attempts[p].core
    IN  /\ attempts[p].pc = "import"
        /\ IF ok
           THEN /\ essentiaLoaded' = TRUE
                /\ engineInitStep(attempts, k, p, attempts[p].waiters, how, TRUE)
           ELSE /\ how = "throws"
                /\ engineInitStep(attempts, k, p, attempts[p].waiters, how, TRUE)
                /\ UNCHANGED essentiaLoaded

\* The promise of Essentia.init() awaited by attempt p settles (line 248).
engineInitSettles(p, ok) ==
    LET k == attempts[p].core
    IN  /\ attempts[p].pc = "init"
        /\ attempts' = [attempts EXCEPT ![p].pc = IF ok THEN "resolved" ELSE "rejected",
                                        ![p].waiters = <<>>]
        /\ microQ' = microQ \o attempts[p].waiters
        /\ IF ok THEN engineReady(k, p) ELSE attemptFails(k)
        /\ UNCHANGED essentiaLoaded

\* The continuation of a call that awaited the promise of initialize().
initializeReturns(c) ==
    /\ calls[c].op = "initialize" /\ calls[c].pc = "awaitInit"
    /\ calls' = [calls EXCEPT ![c].pc = "done",
                              ![c].outcome = attempts[calls[c].awaiting].pc]

(***************************************************************************)
(* cleanup(), lines 295-313: synchronous.  destroyed says whether the      *)
(* engine's destroy / shutdown / delete returned (or threw, which is       *)
(* caught).                                                                *)
(***************************************************************************)
\* cleanup() without its reset of the memoized promise.
cleanupCoreKeepsPromise(k, destroyed) ==
    IF cores[k].essentia = 0
    THEN destroyed /\ UNCHANGED <<cores, handles>>
    ELSE /\ handles' = [handles EXCEPT ![cores[k].essentia] =
                            IF destroyed THEN "destroyed" ELSE "destroyFailed"]
         /\ cores' = [cores EXCEPT ![k].essentia = 0, ![k].isInitialized = FALSE]

cleanupCore(k, destroyed) ==
    IF cores[k].essentia = 0
    THEN destroyed /\ UNCHANGED <<cores, handles>>
    ELSE /\ handles' = [handles EXCEPT ![cores[k].essentia] =
                            IF destroyed THEN "destroyed" ELSE "destroyFailed"]
         /\ cores' = [cores EXCEPT ![k] = NoCore]

cleanupCall(c, k, owner, destroyed) ==
    LET call == [NoCall EXCEPT !.op = "cleanup", !.core = k, !.owner = owner,
                               !.pc = "done", !.outcome = "resolved"]
    IN  /\ cleanupCore(k, destroyed)
        /\ calls' = [calls EXCEPT ![c] = call]
        /\ microQ' = microQ \o queueOf(c, call)
        /\ UNCHANGED <<essentiaLoaded, attempts>>

(***************************************************************************)
(* detectBPM(), lines 445-504.                                             *)
(***************************************************************************)
\* What a rhythm extractor does: it throws, or it returns bpm, tempo and
\* confidence (0 stands for a value that is absent or falsy).  Beats per minute
\* are in tenths.
RhythmOutcomes ==
    {[throws |-> TRUE, bpm10 |-> 0, tempo10 |-> 0, confidence |-> 0],
     [throws |-> FALSE, bpm10 |-> 1284, tempo10 |-> 0, confidence |-> 3],
     [throws |-> FALSE, bpm10 |-> 0, tempo10 |-> 905, confidence |-> 0],
     [throws |-> FALSE, bpm10 |-> 0, tempo10 |-> 0, confidence |-> 0]}

\* rhythm.bpm || rhythm.tempo || 120
rhythmBpm10(r) ==
    IF r.bpm10 # 0 THEN r.bpm10 ELSE IF r.tempo10 # 0 THEN r.tempo10 ELSE 10 * defaultBpm

\* Math.round of a value in tenths
round10(x10) == (x10 + 5) \div 10

\* The catch block of detectSongStructure: onProgress(1.0), then the error is thrown.
\* detectBPM has no such block.
rejected(call, error) ==
    [call EXCEPT !.pc = "done", !.outcome = "rejected", !.error = error,
                 !.progress = IF call.op = "detectSongStructure"
                              THEN Append(@, <<1, 1>>) ELSE @]

\* detectBPM returns; detectSongStructure, when it is the caller, reports 1.0
\* and returns too (lines 681-689).
tempoReturns(call, bpm, confidence) ==
    [call EXCEPT !.pc = "done", !.outcome = "resolved", !.bpm = bpm,
                 !.confidence = confidence,
                 !.progress = IF call.op = "detectSongStructure"
                              THEN Append(@, <<1, 1>>) ELSE @]

\* An entry of a call's record of the engine primitives detectBPM has called:
\* which one, and whether it threw.
engineCall(name, threw) == [name |-> name, threw |-> threw]

\* Lines 446-470: from the entry of detectBPM to its await of a timer.
\* The entry of detectBPM with the error of the conversion thrown on.
tempoEntryRethrows(call, k, convThrows) ==
    IF ensureInitializedThrows(k) THEN rejected(call, "notInitialized")
    ELSE IF convThrows
    THEN [rejected(call, "conversion") EXCEPT !.tried = <<engineCall("arrayToVector", TRUE)>>]
    ELSE [call EXCEPT !.pc = "tempo", !.tried = <<engineCall("arrayToVector", FALSE)>>]

tempoEntry(call, k, convThrows) ==
    IF ensureInitializedThrows(k) THEN rejected(call, "notInitialized")
    ELSE IF convThrows
    THEN [tempoReturns(call, defaultBpm, 0) EXCEPT !.tried = <<engineCall("arrayToVector", TRUE)>>]
    ELSE [call EXCEPT !.pc = "tempo", !.tried = <<engineCall("arrayToVector", FALSE)>>]

\* Lines 472-503: after the timer.
tempoRest(call, k, r1, r2) ==
    LET alive == cores[k].essentia # 0
        first == IF alive THEN r1 ELSE [r1 EXCEPT !.throws = TRUE]
        second == IF alive THEN r2 ELSE [r2 EXCEPT !.throws = TRUE]
        tried == IF first.throws
                 THEN <<engineCall("RhythmExtractor2013", TRUE),
                        engineCall("RhythmExtractor", second.throws)>>
                 ELSE <<engineCall("RhythmExtractor2013", FALSE)>>
        used == IF first.throws THEN second ELSE first
        bpm10 == IF used.throws THEN 10 * defaultBpm ELSE rhythmBpm10(used)
        confidence == IF used.throws THEN 0 ELSE used.confidence
    IN  [tempoReturns(call, round10(bpm10), confidence) EXCEPT !.tried = @ \o tried]

\* Call c runs detectBPM on core k; queue holds the continuations that are
\* ready when it begins.
detectBPMCall(c, k, owner, convThrows, queue) ==
    LET call == tempoEntry([NoCall EXCEPT !.op = "detectBPM", !.core = k, !.owner = owner],
                           k, convThrows)
    IN  /\ calls' = [calls EXCEPT ![c] = call]
        /\ microQ' = IF call.pc = "done" THEN queue \o queueOf(c, call) ELSE queue

tempoResumes(c, r1, r2) ==
    /\ calls[c].pc = "tempo"
    /\ calls' = [calls EXCEPT ![c] = tempoRest(calls[c], calls[c].core, r1, r2)]
    /\ microQ' = microQ \o queueOf(c, calls[c])

(***************************************************************************)
(* detectSongStructure(), lines 509-698.                                   *)
(***************************************************************************)
\* Lines 641-679: what follows the frame loop, up to the await in detectBPM.
structureRest(call, k, f, convThrows) ==
    LET done == [call EXCEPT !.i = f.i, !.chroma = f.chroma, !.mfcc = f.mfcc,
                             !.energy = f.energy, !.labeled = TRUE,
                             !.boundaries = analyseFeatures(f.chroma, f.energy),
                             !.progress = @ \o <<(<<3, 5>>), (<<4, 5>>), (<<9, 10>>), (<<19, 20>>)>>]
    IN  tempoEntry(done, k, convThrows)

\* The frame loop from call.i on, and what follows it if it ends.
structureRun(call, k, first, convThrows) ==
    LET numFrames == numFramesOf(input.length)
        f == extractFrames([i |-> call.i, chroma |-> call.chroma, mfcc |-> call.mfcc,
                            energy |-> call.energy],
                           numFrames, cores[k].essentia # 0, first)
    IN  IF f.i < numFrames
        THEN [call EXCEPT !.pc = "frames", !.i = f.i, !.chroma = f.chroma,
                          !.mfcc = f.mfcc, !.energy = f.energy]
        ELSE structureRest(call, k, f, convThrows)

detectSongStructureCall(c, k, owner, convThrows, queue) ==
    LET fresh == [NoCall EXCEPT !.op = "detectSongStructure", !.core = k, !.owner = owner]
    IN  \E call \in {IF ensureInitializedThrows(k)
                      THEN [fresh EXCEPT !.pc = "done", !.outcome = "rejected",
                                         !.error = "notInitialized"]
                      ELSE structureRun(fresh, k, FALSE, convThrows)} :
            /\ calls' = [calls EXCEPT ![c] = call]
            /\ microQ' = IF call.pc = "done" THEN queue \o queueOf(c, call) ELSE queue

\* The timer awaited in the frame loop fires (lines 551-554, then the loop).
framesResume(c, convThrows) ==
    LET numFrames == numFramesOf(input.length)
        reported == [calls[c] EXCEPT !.progress = Append(@, <<3 * calls[c].i, 5 * numFrames>>)]
    IN  /\ calls[c].op = "detectSongStructure" /\ calls[c].pc = "frames"
        /\ \E call \in {structureRun(reported, calls[c].core, TRUE, convThrows)} :
              /\ calls' = [calls EXCEPT ![c] = call]
              /\ microQ' = IF call.pc = "done" THEN microQ \o queueOf(c, call) ELSE microQ

(***************************************************************************)
(* detectOnsets(), lines 341-440.                                          *)
(***************************************************************************)
\* The magnitude spectrum (two bins) of a frame of this kind.
kindSpectrum(kind) ==
    CASE kind = 0 -> <<0, 0>>
      [] kind = 1 -> <<1, 0>>
      [] OTHER -> <<0, kind>>

\* Lines 386-395: the sum of the rises over the previous spectrum.
spectralFlux(previousSpectrum, magnitudeArray) ==
    IF previousSpectrum = <<>> THEN 0
    ELSE SumSeq([j \in 1..Min(Len(previousSpectrum), Len(magnitudeArray)) |->
                    Max(0, magnitudeArray[j] - previousSpectrum[j])])

\* The number of passes of `for (i = 0; i <= length - frameSize; i += hopSize)`.
onsetFramesOf(length) ==
    IF length < frameSize THEN 0 ELSE ((length - frameSize) \div hopSize) + 1

\* Math.max(1, Math.floor((audioVector.length - frameSize) / hopSize))
totalFramesOf(length) == Max(1, numFramesOf(length))

\* The frame loop from frame call.i up to its next await, a throw of the
\* engine, or its end.
RECURSIVE onsetLoop(_, _, _, _)
onsetLoop(call, count, alive, first) ==
    IF call.i >= count THEN call
    ELSE IF ~first /\ call.i > 0 /\ call.i % onsetChunkSize = 0
    THEN [call EXCEPT !.pc = "onsetFrames"]
    ELSE IF input.faults[call.i + 1].conv \/ ~alive
    THEN [call EXCEPT !.pc = "done", !.outcome = "rejected", !.error = "engine"]
    ELSE LET magnitudeArray == kindSpectrum(input.frames[call.i + 1])
         IN  onsetLoop([call EXCEPT
                           !.i = @ + 1,
                           !.onsetFunction =
                               Append(@, spectralFlux(call.previousSpectrum, magnitudeArray)),
                           !.previousSpectrum = magnitudeArray],
                       count, alive, FALSE)

\* Math.floor((minDistance * sampleRate) / hopSize)
minDistanceFramesOf(minDistanceMs, sampleRate) ==
    (minDistanceMs * sampleRate) \div (1000 * hopSize)

\* Lines 415-428: the peak loop from index i on; picked holds the onset frames
\* so far (lastOnsetFrame is the last of them, -Infinity if there is none).
\* The peak loop with `>` for `>=` in the distance test of line 422.
RECURSIVE pickOnsetsBeyond(_, _, _, _, _)
pickOnsetsBeyond(values, threshold10, minDistanceFrames, i, picked) ==
    IF i >= Len(values) - 1 THEN picked
    ELSE pickOnsetsBeyond(values, threshold10, minDistanceFrames, i + 1,
            IF /\ isPeak(values, threshold10, i)
               /\ \/ picked = <<>>
                  \/ i - picked[Len(picked)] > minDistanceFrames
            THEN Append(picked, i)
            ELSE picked)

RECURSIVE pickOnsets(_, _, _, _, _)
pickOnsets(values, threshold10, minDistanceFrames, i, picked) ==
    IF i >= Len(values) - 1 THEN picked
    ELSE pickOnsets(values, threshold10, minDistanceFrames, i + 1,
            IF /\ isPeak(values, threshold10, i)
               /\ \/ picked = <<>>
                  \/ i - picked[Len(picked)] >= minDistanceFrames
            THEN Append(picked, i)
            ELSE picked)

\* Lines 403-434: what follows the frame loop.
onsetsOf(call) ==
    LET threshold10 == calculateThreshold(call.onsetFunction, call.sensitivity10)
        minDistanceFrames == minDistanceFramesOf(call.minDistanceMs, input.sampleRate)
        picked == pickOnsets(call.onsetFunction, threshold10, minDistanceFrames, 1, <<>>)
    IN  [call EXCEPT !.pc = "done", !.outcome = "resolved",
                     !.progress = Append(@, <<1, 1>>),
                     !.timestamps = [j \in 1..Len(picked) |-> sampleIndexOf(picked[j], hopSize)],
                     !.times = [j \in 1..Len(picked) |->
                                   <<picked[j] * hopSize, input.sampleRate>>]]

onsetRun(call, k, first) ==
    LET after == onsetLoop([call EXCEPT !.pc = "running"], onsetFramesOf(input.length),
                           cores[k].essentia # 0, first)
    IN  IF after.pc = "running" THEN onsetsOf(after) ELSE after

detectOnsetsCall(c, k, owner, sensitivity10, minDistanceMs, queue) ==
    LET fresh == [NoCall EXCEPT !.op = "detectOnsets", !.core = k, !.owner = owner,
                                !.sensitivity10 = sensitivity10,
                                !.minDistanceMs = minDistanceMs]
    IN  \E call \in {IF ensureInitializedThrows(k)
                      THEN [fresh EXCEPT !.pc = "done", !.outcome = "rejected",
                                         !.error = "notInitialized"]
                      ELSE onsetRun(fresh, k, FALSE)} :
            /\ calls' = [calls EXCEPT ![c] = call]
            /\ microQ' = IF call.pc = "done" THEN queue \o queueOf(c, call) ELSE queue

\* The timer awaited in the frame loop fires (lines 366-375, then the loop).
onsetFramesResume(c) ==
    LET total == totalFramesOf(input.length)
        reported == [calls[c] EXCEPT !.progress = Append(@, <<Min(calls[c].i, total), total>>)]
    IN  /\ calls[c].op = "detectOnsets" /\ calls[c].pc = "onsetFrames"
        /\ \E call \in {onsetRun(reported, calls[c].core, TRUE)} :
              /\ calls' = [calls EXCEPT ![c] = call]
              /\ microQ' = IF call.pc = "done" THEN microQ \o queueOf(c, call) ELSE microQ

(***************************************************************************)
(* The inputs of the analyses.                                             *)
(***************************************************************************)
SampleRates == {256, 44100}
MinSectionDurations == {0, 5}

\* Buffer lengths with 0..MaxFrames frames for detectSongStructure, and two
\* buffers shorter than a frame.
BufferLengths ==
    {0, frameSize - 1} \cup
    {frameSize + hopSize * n + r : n \in 0..MaxFrames, r \in {0, hopSize - 1}}

\* The frames of a buffer: those the loop of detectOnsets reads, one more than
\* the loop of detectSongStructure reads.
framesIn(length) == onsetFramesOf(length)

\* The frames whose sample index loses one to rounding: none, or the odd ones.
FpLosses == {{}, {f \in 1..(MaxFrames + 1) : f % 2 = 1}}

\* engine: what the engine may do in detectBPM: whether arrayToVector may throw
\* there (conv) and what the rhythm extractors may do (rhythms).
makeInput(length, sampleRate, frames, faults, maxSections, minSectionDuration, fpLoss, engine) ==
    [length |-> length, sampleRate |-> sampleRate, duration |-> <<length, sampleRate>>,
     frames |-> frames, faults |-> faults, maxSections |-> maxSections,
     minSectionDuration |-> minSectionDuration, fpLoss |-> fpLoss, engine |-> engine]

AnyEngine == [conv |-> BOOLEAN, rhythms |-> RhythmOutcomes]
SoundEngine == [conv |-> {FALSE}, rhythms |-> {r \in RhythmOutcomes : r.bpm10 # 0}]

noFaults(n) == [j \in 1..n |-> NoFault]

\* Every buffer of at most MaxFrames frames (and a last, silent one, which
\* detectSongStructure does not read) at the rate where a kernel is one frame
\* wide.
RichStructureInput(x) ==
    \E n \in 0..MaxFrames :
        \E frames \in [1..n -> FrameKinds], maxSections \in 1..MaxSections,
           minSectionDuration \in MinSectionDurations :
            x = makeInput(frameSize + hopSize * n, 256, Append(frames, 0), noFaults(n + 1),
                          maxSections, minSectionDuration, {}, SoundEngine)

\* Buffers of one kind of frame at every rate and length.
PlainStructureInput(x) ==
    \E length \in BufferLengths, sampleRate \in SampleRates, kind \in FrameKinds,
       maxSections \in 1..MaxSections, fpLoss \in FpLosses :
        x = makeInput(length, sampleRate, [j \in 1..framesIn(length) |-> kind],
                      noFaults(framesIn(length)), maxSections, 5, fpLoss, SoundEngine)

\* What the engine may do on a frame other than work: arrayToVector throws, or
\* it works and Chromagram or the MFCC pipeline fails in one of their ways.
FrameFaults ==
    {[NoFault EXCEPT !.conv = TRUE]} \cup
    ([conv : {FALSE}, chroma : {"ok", "fail"}, mfcc : {"ok", "empty", "throw", "throwRms"}]
        \ {NoFault})

\* Buffers of MaxFrames frames on which the engine fails in one way at the
\* frames of a set.
FaultyStructureInput(x) ==
    \E at \in (SUBSET (1..MaxFrames)) \ {{}}, fault \in FrameFaults :
        x = makeInput(frameSize + hopSize * MaxFrames, 256,
                      [j \in 1..(MaxFrames + 1) |-> j % 3],
                      [j \in 1..(MaxFrames + 1) |-> IF j \in at THEN fault ELSE NoFault],
                      2, 0, {}, SoundEngine)

\* A silent buffer of ten seconds at a low sample rate, analysed with
\* maxSections = 8 and the default minSectionDuration (5, line 519).
SilentRates == {256, 1000, 2000}

SilentStructureInput(x) ==
    \E sampleRate \in SilentRates :
        x = makeInput(10 * sampleRate, sampleRate,
                      [j \in 1..framesIn(10 * sampleRate) |-> 0],
                      noFaults(framesIn(10 * sampleRate)), 8, 5, {}, SoundEngine)

\* The options of detectOnsets: sensitivity in tenths, minDistance in
\* milliseconds (the defaults are 5 and 50).
Sensitivities == {0, 5, 10}
MinDistances == {0, 50, 100}
OnsetSampleRates == {8000, 44100}

\* The length of a buffer of n frames.
lengthOfFrames(n) == IF n = 0 THEN frameSize - 1 ELSE frameSize + hopSize * (n - 1)

\* Every buffer of at most MaxOnsetFrames frames that are silent or of kind 1.
LongOnsetInput(x) ==
    \E n \in 0..MaxOnsetFrames :
        \E frames \in [1..n -> 0..1], sampleRate \in OnsetSampleRates :
            x = makeInput(lengthOfFrames(n), sampleRate, frames, noFaults(n), 1, 5, {},
                          SoundEngine)

\* Every buffer of at most MaxFrames frames of any kind.
RichOnsetInput(x) ==
    \E n \in 0..MaxFrames :
        \E frames \in [1..n -> FrameKinds], sampleRate \in OnsetSampleRates :
            x = makeInput(lengthOfFrames(n), sampleRate, frames, noFaults(n), 1, 5, {},
                          SoundEngine)

\* Buffers on which the engine throws at one frame.
FaultyOnsetInput(x) ==
    \E n \in 1..MaxOnsetFrames :
        \E at \in 1..n :
            x = makeInput(lengthOfFrames(n), 44100, [j \in 1..n |-> j % 2],
                          [j \in 1..n |-> [NoFault EXCEPT !.conv = (j = at)]], 1, 5, {},
                          SoundEngine)

(***************************************************************************)
(* The actions.  A task (a call from outside, a timer, a settled import)   *)
(* starts only when no continuation is ready.                              *)
(***************************************************************************)
Idle == microQ = <<>>

\* Call slots are taken in order.
Free(c) == calls[c].op = "none" /\ \A d \in 1..(c - 1) : calls[d].op # "none"

workerVars == <<workerCore, handlers, outbox>>

Initialize(c) ==
    /\ Idle /\ Free(c)
    /\ initializeCall(c, 1, "caller")
    /\ UNCHANGED <<env, client, input, workerVars>>

ImportSettles(p) ==
    /\ Idle /\ p <= Len(attempts)
    /\ \E ok \in BOOLEAN, how \in EngineInitChoices : importSettles(p, ok, how)
    /\ UNCHANGED <<env, client, calls, input, workerVars>>

EngineInitSettles(p) ==
    /\ Idle /\ p <= Len(attempts)
    /\ \E ok \in BOOLEAN : engineInitSettles(p, ok)
    /\ UNCHANGED <<env, client, calls, input, workerVars>>

InitializeReturns ==
    /\ microQ # <<>>
    /\ initializeReturns(Head(microQ))
    /\ microQ' = Tail(microQ) \o queueOf(Head(microQ), calls[Head(microQ)])
    /\ UNCHANGED <<env, client, essentiaLoaded, cores, attempts, handles, input, workerVars>>

Cleanup(c) ==
    /\ Idle /\ Free(c)
    /\ \E destroyed \in BOOLEAN : cleanupCall(c, 1, "caller", destroyed)
    /\ UNCHANGED <<env, client, input, workerVars>>

DetectBPM(c) ==
    /\ Idle /\ Free(c)
    /\ \E convThrows \in input.engine.conv : detectBPMCall(c, 1, "caller", convThrows, microQ)
    /\ UNCHANGED <<env, client, essentiaLoaded, cores, attempts, handles, input, workerVars>>

DetectSongStructure(c) ==
    /\ Idle /\ Free(c)
    /\ \E convThrows \in input.engine.conv : detectSongStructureCall(c, 1, "caller", convThrows, microQ)
    /\ UNCHANGED <<env, client, essentiaLoaded, cores, attempts, handles, input, workerVars>>

FramesResume(c) ==
    /\ Idle
    /\ \E convThrows \in input.engine.conv : framesResume(c, convThrows)
    /\ UNCHANGED <<env, client, essentiaLoaded, cores, attempts, handles, input, workerVars>>

TempoResumes(c) ==
    /\ Idle
    /\ \E r1 \in input.engine.rhythms, r2 \in input.engine.rhythms : tempoResumes(c, r1, r2)
    /\ UNCHANGED <<env, client, essentiaLoaded, cores, attempts, handles, input, workerVars>>

DetectOnsets(c) ==
    /\ Idle /\ Free(c)
    /\ \E sensitivity10 \in Sensitivities, minDistanceMs \in MinDistances :
          detectOnsetsCall(c, 1, "caller", sensitivity10, minDistanceMs, microQ)
    /\ UNCHANGED <<env, client, essentiaLoaded, cores, attempts, handles, input, workerVars>>

OnsetFramesResume(c) ==
    /\ Idle
    /\ onsetFramesResume(c)
    /\ UNCHANGED <<env, client, essentiaLoaded, cores, attempts, handles, input, workerVars>>

(***************************************************************************)
(* The worker (src/QUEUE_SLICE_SYSTEM.md, lines 255-369).  A handler is    *)
(* one run of ctx.onmessage for a request; request r makes its calls on    *)
(* the core in call slot r, one after the other.  A handler's pc is        *)
(* "none" (no such request yet), "ensureInit" (ensureCore awaits           *)
(* initialize), "ensureReturn" (the handler awaits the promise of          *)
(* ensureCore, which has settled), "detect" (it awaits detectOnsets,       *)
(* detectBPM or detectSongStructure), "cleanup" (it awaits cleanup) or     *)
(* "done".  instance is the core ensureCore returned (0 for null), failed  *)
(* says that ensureCore rejected.  Of the messages posted, outbox holds    *)
(* all but the progress events.                                            *)
(***************************************************************************)
Commands == {"INIT", "DETECT_ONSETS", "DETECT_BPM", "DETECT_STRUCTURE", "CLEANUP", "UNKNOWN"}

NoHandler == [command |-> "none", pc |-> "none", instance |-> 0, failed |-> FALSE]

\* The options the client puts into a DETECT_ONSETS request by default:
\* sensitivity 0.5 (in tenths) and minDistance 0.05 s (in milliseconds).
defaultSensitivity10 == 5
defaultMinDistanceMs == 50

\* A worker that posts every message twice.
postTwice(id, event) ==
    outbox' = outbox \o <<[id |-> id, event |-> event], [id |-> id, event |-> event]>>

\* postMessageToClient({ id, event })
post(id, event) == outbox' = Append(outbox, [id |-> id, event |-> event])

\* new AudioAnalysisCore(): the next object of cores.  Each core the worker
\* makes starts one attempt at once, so the cores made are those with attempts.
nextCore == Cardinality({attempts[p].core : p \in 1..Len(attempts)}) + 1

\* ensureCore(), lines 276-282, called by the handler of request r, up to its
\* await or its return.
ensureCore(r, command) ==
    IF workerCore = 0
    THEN /\ nextCore <= Len(cores)
         /\ workerCore' = nextCore
         /\ initializeCall(r, nextCore, "handler")
         /\ handlers' = [handlers EXCEPT
                            ![r] = [NoHandler EXCEPT !.command = command, !.pc = "ensureInit"]]
    ELSE /\ handlers' = [handlers EXCEPT
                            ![r] = [NoHandler EXCEPT !.command = command,
                                                     !.pc = "ensureReturn",
                                                     !.instance = workerCore]]
         /\ microQ' = Append(microQ, r)
         /\ UNCHANGED <<workerCore, calls, cores, attempts, handles, essentiaLoaded>>

\* ctx.onmessage, lines 303-367, from its start to its first await or its end.
receive(r, command) ==
    LET finished == [handlers EXCEPT
                        ![r] = [NoHandler EXCEPT !.command = command, !.pc = "done"]]
    IN  CASE command \in {"INIT", "DETECT_ONSETS", "DETECT_BPM", "DETECT_STRUCTURE"} ->
               ensureCore(r, command) /\ UNCHANGED outbox
          [] command = "CLEANUP" ->
               IF workerCore # 0
               THEN /\ \E destroyed \in BOOLEAN :
                         cleanupCall(r, workerCore, "handler", destroyed)
                    /\ handlers' = [handlers EXCEPT
                                       ![r] = [NoHandler EXCEPT !.command = command,
                                                                !.pc = "cleanup"]]
                    /\ UNCHANGED <<workerCore, outbox>>
               ELSE /\ handlers' = finished
                    /\ post(r, "result")
                    /\ UNCHANGED <<workerCore, calls, microQ, cores, attempts, handles,
                                   essentiaLoaded>>
          [] OTHER ->
               /\ handlers' = finished
               /\ post(r, "error")
               /\ UNCHANGED <<workerCore, calls, microQ, cores, attempts, handles,
                              essentiaLoaded>>

\* ensureCore after its await of initialize(): it throws what initialize threw,
\* or it returns the core the variable holds now (line 281).
ensureCoreReturns(r) ==
    /\ handlers[r].pc = "ensureInit"
    /\ calls[r].op = "initialize" /\ calls[r].pc = "done"
    /\ handlers' = [handlers EXCEPT
                       ![r].pc = "ensureReturn",
                       ![r].failed = (calls[r].outcome = "rejected"),
                       ![r].instance = IF calls[r].outcome = "rejected" THEN 0 ELSE workerCore]

\* The handler after `await ensureCore()`; queue holds the other continuations
\* that are ready.  A call on a null instance throws a TypeError.
handlerResumes(r, queue) ==
    LET h == handlers[r]
        finished == [handlers EXCEPT ![r].pc = "done"]
        quiet == <<workerCore, calls, cores, attempts, handles, essentiaLoaded>>
    IN  /\ h.pc = "ensureReturn"
        /\ IF h.failed
           THEN handlers' = finished /\ post(r, "error") /\ microQ' = queue /\ UNCHANGED quiet
           ELSE IF h.command = "INIT"
           THEN handlers' = finished /\ post(r, "initialized") /\ microQ' = queue
                /\ UNCHANGED quiet
           ELSE IF h.instance = 0
           THEN handlers' = finished /\ post(r, "error") /\ microQ' = queue /\ UNCHANGED quiet
           ELSE /\ handlers' = [handlers EXCEPT ![r].pc = "detect"]
                /\ CASE h.command = "DETECT_ONSETS" ->
                          detectOnsetsCall(r, h.instance, "handler", defaultSensitivity10,
                                           defaultMinDistanceMs, queue)
                     [] h.command = "DETECT_BPM" ->
                          \E convThrows \in input.engine.conv :
                              detectBPMCall(r, h.instance, "handler", convThrows, queue)
                     [] OTHER ->
                          \E convThrows \in input.engine.conv :
                              detectSongStructureCall(r, h.instance, "handler", convThrows,
                                                      queue)
                /\ UNCHANGED <<workerCore, cores, attempts, handles, essentiaLoaded, outbox>>

\* The handler after its await of a detect call: postResult or postError.
detectReturns(r) ==
    /\ handlers[r].pc = "detect"
    /\ calls[r].pc = "done"
    /\ handlers' = [handlers EXCEPT ![r].pc = "done"]
    /\ post(r, IF calls[r].outcome = "resolved" THEN "result" ELSE "error")
    /\ UNCHANGED workerCore

\* The handler of CLEANUP after `await core.cleanup?.()`: core = null; postResult({}).
cleanupReturns(r) ==
    /\ handlers[r].pc = "cleanup"
    /\ handlers' = [handlers EXCEPT ![r].pc = "done"]
    /\ workerCore' = 0
    /\ post(r, "result")

\* A message arrives at the worker; request ids come in order.
Receive(r, command) ==
    /\ Idle
    /\ handlers[r].pc = "none" /\ \A q \in 1..(r - 1) : handlers[q].pc # "none"
    /\ receive(r, command)
    /\ UNCHANGED <<env, client, input>>

EnsureCoreReturns(r) ==
    /\ microQ # <<>> /\ Head(microQ) = r
    /\ ensureCoreReturns(r)
    /\ microQ' = Append(Tail(microQ), r)
    /\ UNCHANGED <<env, client, essentiaLoaded, cores, attempts, handles, calls, input, workerCore,
                   outbox>>

HandlerResumes(r) ==
    /\ microQ # <<>> /\ Head(microQ) = r
    /\ handlerResumes(r, Tail(microQ))
    /\ UNCHANGED <<env, client, input>>

DetectReturns(r) ==
    /\ microQ # <<>> /\ Head(microQ) = r
    /\ detectReturns(r)
    /\ microQ' = Tail(microQ)
    /\ UNCHANGED <<env, client, essentiaLoaded, cores, attempts, handles, calls, input>>

CleanupReturns(r) ==
    /\ microQ # <<>> /\ Head(microQ) = r
    /\ cleanupReturns(r)
    /\ microQ' = Tail(microQ)
    /\ UNCHANGED <<env, client, essentiaLoaded, cores, attempts, handles, calls, input>>

(***************************************************************************)
(* The worker client, AudioAnalysisWorkerClient (src/lib/media-library.ts, *)
(* lines 970-1129): sendRequest and the onmessage handler it installs on   *)
(* the worker, and the end of cleanup().  A request's outcome is "none"     *)
(* (not sent), "pending", "resolved" or "rejected"; last is the message    *)
(* handled last; terminated says that cleanup() has terminated the worker. *)
(* The model follows the client up to there: the requests of one worker.   *)
(***************************************************************************)
RequestIds == 1..MaxRequests

\* The ids a message may carry: those of the requests and one never used.
MessageIds == 1..(MaxRequests + 1)

Events == {"result", "error", "progress", "initialized"}

NoClient ==
    [nextId |-> 0, pending |-> {}, outcome |-> [id \in RequestIds |-> "none"],
     progress |-> [id \in RequestIds |-> 0], delivered |-> 0,
     last |-> [id |-> 0, event |-> "none"], terminated |-> FALSE]

\* sendRequest, lines 1007-1023: id = ++this.nextId; this.pending.set(id, ...)
sendRequest(cl, id) ==
    [cl EXCEPT !.nextId = id, !.pending = @ \cup {id}, !.outcome[id] = "pending"]

\* The handler without `this.pending.delete(id)`.
onmessageKeepsEntry(cl, id, event) ==
    LET seen == [cl EXCEPT !.last = [id |-> id, event |-> event]]
    IN  IF id \notin cl.pending THEN seen
        ELSE IF event = "progress" THEN [seen EXCEPT !.progress[id] = @ + 1]
        ELSE [seen EXCEPT !.outcome[id] = IF event = "error" THEN "rejected" ELSE "resolved"]

\* worker.onmessage, lines 986-1002.
onmessage(cl, id, event) ==
    LET seen == [cl EXCEPT !.last = [id |-> id, event |-> event]]
    IN  IF id \notin cl.pending THEN seen
        ELSE IF event = "progress" THEN [seen EXCEPT !.progress[id] = @ + 1]
        ELSE [seen EXCEPT !.outcome[id] = IF event = "error" THEN "rejected" ELSE "resolved",
                          !.pending = @ \ {id}]

\* this.initialized: an INIT request has been resolved (line 1028) and
\* cleanup() has not reset the flag (line 1042).
clientInitialized ==
    /\ ~client.terminated
    /\ \E r \in RequestIds : handlers[r].command = "INIT" /\ client.outcome[r] = "resolved"

\* The promise cleanup() awaits (line 1038) has settled and its finally block
\* has not run yet; it runs before the client starts any other task.
finallyDue ==
    /\ ~client.terminated
    /\ \E r \in RequestIds :
          handlers[r].command = "CLEANUP" /\ client.outcome[r] \in {"resolved", "rejected"}

\* A method of the client may send this command now: initialize() sends INIT
\* unless the client is initialized, the analyses send theirs after their
\* `await this.initialize()`, cleanup() sends CLEANUP if there is a worker.
maySend(command) ==
    CASE command = "INIT" -> ~clientInitialized
      [] command \in {"DETECT_ONSETS", "DETECT_BPM", "DETECT_STRUCTURE"} -> clientInitialized
      [] command = "CLEANUP" -> client.nextId > 0
      [] OTHER -> TRUE

\* The client sends a request, which arrives at the worker.
SendRequest(r, command) ==
    /\ Idle
    /\ ~client.terminated /\ ~finallyDue
    /\ maySend(command)
    /\ r = client.nextId + 1
    /\ handlers[r].pc = "none"
    /\ client' = sendRequest(client, r)
    /\ receive(r, command)
    /\ UNCHANGED <<env, input>>

\* The next message the worker has posted reaches the client.
Deliver ==
    /\ ~client.terminated /\ ~finallyDue
    /\ client.delivered < Len(outbox)
    /\ LET m == outbox[client.delivered + 1]
       IN  client' = [onmessage(client, m.id, m.event) EXCEPT !.delivered = @ + 1]
    /\ UNCHANGED <<env, essentiaLoaded, cores, attempts, handles, calls, microQ, input,
                   workerCore, handlers, outbox>>

\* Another message reaches the client: a progress event of a request that
\* reports progress (postProgress is given to detectOnsets and to
\* detectSongStructure), or a message whose id has no pending entry.
OtherMessage(id, event) ==
    /\ ~client.terminated /\ ~finallyDue
    /\ id \in client.pending =>
          /\ event = "progress"
          /\ handlers[id].command \in {"DETECT_ONSETS", "DETECT_STRUCTURE"}
          /\ client.progress[id] < MaxProgress
    /\ client' = onmessage(client, id, event)
    /\ UNCHANGED <<env, essentiaLoaded, cores, attempts, handles, calls, microQ, input,
                   workerCore, handlers, outbox>>

\* The finally block of cleanup(), lines 1039-1044: the worker is terminated
\* and the pending table is cleared.
CleanupFinally ==
    /\ finallyDue
    /\ client' = [client EXCEPT !.terminated = TRUE, !.pending = {}]
    /\ UNCHANGED <<env, essentiaLoaded, cores, attempts, handles, calls, microQ, input,
                   workerCore, handlers, outbox>>

(***************************************************************************)
(* SpecStructure: detectSongStructure on an initialized engine, alone, on  *)
(* every input of StructureInputs.                                         *)
(***************************************************************************)
HostEnvs == [wasm : BOOLEAN, api : {"init", "legacy"}]

ReadyCore == [essentia |-> 1, isInitialized |-> TRUE, initializationPromise |-> 1]

InitReady ==
    /\ env = [wasm |-> TRUE, api |-> "init"]
    /\ essentiaLoaded = TRUE
    /\ cores = <<ReadyCore>>
    /\ attempts = <<[core |-> 1, pc |-> "resolved", waiters |-> <<>>]>>
    /\ handles = <<"live">>
    /\ calls = [c \in CallIds |-> NoCall]
    /\ microQ = <<>>
    /\ workerCore = 0
    /\ handlers = <<>>
    /\ outbox = <<>>
    /\ client = NoClient

InitStructure ==
    /\ InitReady
    /\ \/ RichStructureInput(input)
       \/ PlainStructureInput(input)
       \/ FaultyStructureInput(input)
       \/ SilentStructureInput(input)

NextStructure == DetectSongStructure(1) \/ FramesResume(1) \/ TempoResumes(1)

SpecStructure == InitStructure /\ [][NextStructure]_vars

(***************************************************************************)
(* SpecOnsets: detectOnsets on an initialized engine, alone.               *)
(***************************************************************************)
InitOnsets ==
    /\ InitReady
    /\ (LongOnsetInput(input) \/ RichOnsetInput(input) \/ FaultyOnsetInput(input))

NextOnsets == DetectOnsets(1) \/ OnsetFramesResume(1)

SpecOnsets == InitOnsets /\ [][NextOnsets]_vars

(***************************************************************************)
(* SpecCore: one AudioAnalysisCore from its construction on, with up to    *)
(* MaxCalls calls of initialize, cleanup, detectBPM and                    *)
(* detectSongStructure made from outside at any time, on any host and with *)
(* an engine that may fail.                                                *)
(***************************************************************************)
\* A buffer without a frame for detectSongStructure and one on which its
\* frame loop yields once.
CoreInput(x) ==
    \E length \in {frameSize, frameSize + hopSize * (structureChunkSize + 1)} :
        x = makeInput(length, 256, [j \in 1..framesIn(length) |-> j % 3],
                      noFaults(framesIn(length)), 2, 0, {}, AnyEngine)

InitCore ==
    /\ env \in HostEnvs
    /\ essentiaLoaded = FALSE
    /\ cores = <<NoCore>>
    /\ attempts = <<>>
    /\ handles = <<>>
    /\ calls = [c \in CallIds |-> NoCall]
    /\ microQ = <<>>
    /\ workerCore = 0
    /\ handlers = <<>>
    /\ outbox = <<>>
    /\ client = NoClient
    /\ CoreInput(input)

NextCore ==
    \/ \E c \in 1..MaxCalls :
          \/ Initialize(c)
          \/ Cleanup(c)
          \/ DetectBPM(c)
          \/ DetectSongStructure(c)
          \/ FramesResume(c)
          \/ TempoResumes(c)
    \/ \E p \in 1..MaxAttempts : ImportSettles(p) \/ EngineInitSettles(p)
    \/ InitializeReturns

SpecCore == InitCore /\ [][NextCore]_vars

(***************************************************************************)
(* SpecWorker: the worker from its start on, with up to MaxRequests        *)
(* requests of any command arriving at any time.                           *)
(***************************************************************************)
\* A buffer of one frame, and one on which every frame loop yields.
WorkerInput(x) ==
    \E n \in {1, MaxOnsetFrames} :
        x = makeInput(lengthOfFrames(n), 256, [j \in 1..n |-> j % 3], noFaults(n), 2, 0, {},
                      SoundEngine)

InitWorker ==
    /\ env \in HostEnvs
    /\ essentiaLoaded = FALSE
    /\ cores = [k \in 1..MaxAttempts |-> NoCore]
    /\ attempts = <<>>
    /\ handles = <<>>
    /\ calls = [c \in CallIds |-> NoCall]
    /\ microQ = <<>>
    /\ workerCore = 0
    /\ handlers = [r \in 1..MaxRequests |-> NoHandler]
    /\ outbox = <<>>
    /\ client = NoClient
    /\ WorkerInput(input)

NextWorker ==
    \/ \E r \in 1..MaxRequests :
          \/ \E command \in Commands : Receive(r, command)
          \/ EnsureCoreReturns(r)
          \/ HandlerResumes(r)
          \/ DetectReturns(r)
          \/ CleanupReturns(r)
          \/ FramesResume(r)
          \/ OnsetFramesResume(r)
          \/ TempoResumes(r)
    \/ \E p \in 1..MaxAttempts : ImportSettles(p) \/ EngineInitSettles(p)
    \/ InitializeReturns

SpecWorker == InitWorker /\ [][NextWorker]_vars

(***************************************************************************)
(* SpecClient: the client and its worker, with up to MaxRequests requests  *)
(* sent as the methods of the client send them (and a request with an      *)
(* unknown command), any other message reaching the client, up to the end  *)
(* of cleanup().                                                           *)
(***************************************************************************)
\* The worker starts as in SpecWorker.
InitClient == InitWorker

\* A terminated worker runs no more.
NextClient ==
    \/ \E r \in 1..MaxRequests :
          \/ \E command \in Commands : SendRequest(r, command)
          \/ ~client.terminated /\ EnsureCoreReturns(r)
          \/ ~client.terminated /\ HandlerResumes(r)
          \/ ~client.terminated /\ DetectReturns(r)
          \/ ~client.terminated /\ CleanupReturns(r)
          \/ ~client.terminated /\ FramesResume(r)
          \/ ~client.terminated /\ OnsetFramesResume(r)
          \/ ~client.terminated /\ TempoResumes(r)
    \/ \E p \in 1..MaxAttempts :
          \/ ~client.terminated /\ ImportSettles(p)
          \/ ~client.terminated /\ EngineInitSettles(p)
    \/ ~client.terminated /\ InitializeReturns
    \/ Deliver
    \/ \E id \in MessageIds, event \in Events : OtherMessage(id, event)
    \/ CleanupFinally

SpecClient == InitClient /\ [][NextClient]_vars

(***************************************************************************)
(* SpecLabels: labelSections alone, applied to the section lists that      *)
(* detectBoundaries can hand it for a buffer of 200 frames at 2000 Hz      *)
(* (52.2 seconds, a kernel of 11 frames, 11.29 frames of the energy        *)
(* profile to one frame of a boundary) whose energy is level over four     *)
(* stretches of frames.                                                    *)
(***************************************************************************)
\* The frame j of a stretch of this level: silence, tone 1, tone 2, or tone 1
\* in two frames of three.
stretchKind(level, j) == IF level = 3 THEN (IF j % 3 = 0 THEN 0 ELSE 1) ELSE level

\* The stretch of frame j: the frames labelSections reads for the sections
\* that start at the frames 0, 12, 14 and 17.
stretchOf(j) == IF j <= 135 THEN 1 ELSE IF j <= 158 THEN 2 ELSE IF j <= 191 THEN 3 ELSE 4

LabelInput(x) ==
    \E levels \in [1..4 -> 0..3] :
        x = makeInput(frameSize + hopSize * 200, 2000,
                      [j \in 1..201 |-> stretchKind(levels[stretchOf(j)], j)],
                      noFaults(201), 7, 0, {}, SoundEngine)

\* The frames where the novelty function may have had its peaks (they lie
\* between frame 12 and frame 187, a kernel away from both ends).
LabelPeaks == {12, 14, 17, 50, 110, 170}

RECURSIVE ascending(_)
ascending(S) ==
    IF S = {} THEN <<>>
    ELSE LET least == CHOOSE x \in S : \A y \in S : x <= y
         IN  <<least>> \o ascending(S \ {least})

\* Lines 769-789: the forced start, the peaks, the forced end.
boundaryList(peaks) == <<0>> \o ascending(peaks) \o <<numFramesOf(input.length) - 1>>

\* Lines 811-828 and 836-902 for these boundaries and the energy profile of
\* the buffer.
labelSectionsCall(c, boundaries) ==
    LET energyProfile == [j \in 1..numFramesOf(input.length) |-> kindRms(input.frames[j])]
    IN  calls' = [calls EXCEPT ![c] =
                    [NoCall EXCEPT !.op = "labelSections", !.core = 1, !.owner = "caller",
                                   !.pc = "done", !.outcome = "resolved",
                                   !.i = numFramesOf(input.length),
                                   !.energy = energyProfile, !.labeled = TRUE,
                                   !.boundaries =
                                       labelSections(toSections(boundaries, input.sampleRate,
                                                                hopSize),
                                                     energyProfile, input.duration)]]

LabelSections(c) ==
    /\ Idle /\ Free(c)
    /\ \E peaks \in SUBSET LabelPeaks : labelSectionsCall(c, boundaryList(peaks))
    /\ UNCHANGED <<env, client, essentiaLoaded, cores, attempts, handles, microQ, input,
                   workerVars>>

InitLabels == InitReady /\ LabelInput(input)

NextLabels == LabelSections(1)

SpecLabels == InitLabels /\ [][NextLabels]_vars

(***************************************************************************)
(* What the properties below observe.                                      *)
(***************************************************************************)
\* Call c is a detectSongStructure call that has returned a result.
structureResult(c) ==
    /\ calls[c].op = "detectSongStructure"
    /\ calls[c].pc = "done"
    /\ calls[c].outcome = "resolved"

\* Call c has its sections and awaits the timer of the tempo step.
structureLabeled(c) ==
    /\ calls[c].op = "detectSongStructure"
    /\ calls[c].pc = "tempo"
    /\ calls[c].labeled

\* The boundaries detectBoundaries had for call c before its merge loop.
candidatesOf(c) ==
    candidateBoundaries(buildSimilarityMatrix(calls[c].chroma), input.sampleRate,
                        hopSize, input.duration, input.minSectionDuration)

\* C1: in every result of detectSongStructure the first section starts at
\* sample 0, the last section ends at sample buffer.length, and every section
\* ends at the sample where the next one starts.
BoundaryCoverage ==
    \A c \in CallIds :
        structureResult(c) /\ calls[c].boundaries # <<>> =>
            LET b == calls[c].boundaries
            IN  /\ b[1].startSample = 0
                /\ b[Len(b)].endSample = input.length
                /\ \A i \in 1..(Len(b) - 1) : b[i].endSample = b[i + 1].startSample

\* C2: the merge loop of detectBoundaries ends after as many passes as there
\* are boundaries over the budget (none if there are none), and every result
\* of detectSongStructure has at most maxSections sections.
BoundaryBudget ==
    \A c \in CallIds :
        /\ structureResult(c) => Len(calls[c].boundaries) <= input.maxSections
        /\ structureLabeled(c) =>
              /\ Len(calls[c].boundaries) <= input.maxSections
              /\ mergePasses(candidatesOf(c), input.maxSections)
                    = Max(0, Len(candidatesOf(c)) - (input.maxSections + 1))

\* C2: a call whose merge loop made two passes to come down to the budget.
BudgetEnforced ==
    \E c \in CallIds :
        /\ structureLabeled(c)
        /\ Len(calls[c].boundaries) = input.maxSections
        /\ mergePasses(candidatesOf(c), input.maxSections) = 2

\* Call c is a detectOnsets call that has returned a result.
onsetResult(c) ==
    /\ calls[c].op = "detectOnsets"
    /\ calls[c].pc = "done"
    /\ calls[c].outcome = "resolved"

\* C3: the onset times returned by detectOnsets are strictly increasing and
\* every two adjacent onset times differ by at least minDistance seconds.
OnsetSpacing ==
    \A c \in CallIds :
        onsetResult(c) =>
            \A j \in 1..(Len(calls[c].times) - 1) :
                LET a == calls[c].times[j]
                    b == calls[c].times[j + 1]
                IN  \* both are a number of samples over the sample rate
                    /\ a[2] = input.sampleRate /\ b[2] = input.sampleRate
                    /\ a[1] < b[1]
                    /\ 1000 * (b[1] - a[1]) >= calls[c].minDistanceMs * input.sampleRate

\* A progress sequence in which no value is below the one before it.
nonDecreasing(progress) ==
    \A j \in 1..(Len(progress) - 1) : RatLeq(progress[j], progress[j + 1])

\* C4: for every detectSongStructure call, whether the engine is initialized
\* or not and whether the call succeeds or fails, the progress values given to
\* onProgress never decrease, and the last one given before the call resolves
\* or rejects is 1.0.
ProgressTermination ==
    \A c \in CallIds :
        calls[c].op = "detectSongStructure" =>
            /\ nonDecreasing(calls[c].progress)
            /\ calls[c].pc = "done" =>
                  /\ calls[c].progress # <<>>
                  /\ RatEq(calls[c].progress[Len(calls[c].progress)], <<1, 1>>)

\* Call c is a detectBPM call that found the engine initialized when it began.
tempoBegun(c) ==
    /\ calls[c].op = "detectBPM"
    /\ calls[c].pc \in {"tempo", "done"}
    /\ calls[c].error # "notInitialized"

\* Call c has called this primitive of the engine, and it threw.
threw(c, name) == \E j \in 1..Len(calls[c].tried) : calls[c].tried[j] = engineCall(name, TRUE)

fallbackResult(c) ==
    /\ calls[c].outcome = "resolved"
    /\ calls[c].bpm = defaultBpm
    /\ calls[c].confidence = 0

\* C5: a detectBPM call on an initialized engine never rejects; if arrayToVector
\* throws, or if both rhythm extractors throw, it resolves with bpm 120 and
\* confidence 0; and RhythmExtractor is called only right after
\* RhythmExtractor2013 has thrown.
BpmFallback ==
    \A c \in CallIds :
        tempoBegun(c) =>
            /\ calls[c].pc = "done" => calls[c].outcome = "resolved"
            /\ calls[c].pc = "done" /\ threw(c, "arrayToVector") => fallbackResult(c)
            /\ threw(c, "RhythmExtractor2013") /\ threw(c, "RhythmExtractor") =>
                  fallbackResult(c)
            /\ \A j \in 1..Len(calls[c].tried) :
                  calls[c].tried[j].name = "RhythmExtractor" =>
                      /\ j > 1
                      /\ calls[c].tried[j - 1] = engineCall("RhythmExtractor2013", TRUE)

\* C5: one detectBPM call has fallen back after arrayToVector threw and another
\* after both rhythm extractors threw on a live engine.
BpmFellBack ==
    \E c \in CallIds, d \in CallIds :
        /\ tempoBegun(c) /\ threw(c, "arrayToVector") /\ fallbackResult(c)
        /\ tempoBegun(d) /\ threw(d, "RhythmExtractor2013") /\ threw(d, "RhythmExtractor")
        /\ fallbackResult(d)
        /\ isAvailable(calls[d].core)

\* C6: a detectSongStructure call that has labelled its sections does not
\* reject, whatever other calls (cleanup() among them) run in between.
TempoNeverAborts ==
    \A c \in CallIds :
        calls[c].op = "detectSongStructure" /\ calls[c].labeled /\ calls[c].pc = "done" =>
            calls[c].outcome = "resolved"

\* The attempts of core k to load the engine that have not settled.
inFlight(k) == {p \in 1..Len(attempts) : attempts[p].core = k /\ ~Settled(p)}

\* Call c begins in this step, as a call of initialize().
initializeBegins(c) == calls[c].op = "none" /\ calls'[c].op = "initialize"

\* C7: a core has at most one attempt in flight; an initialize() call made
\* while one is in flight starts no attempt and awaits that one; every call
\* gets the outcome of the attempt it awaited; and initialize() on an
\* initialized core starts no attempt, makes no engine and resolves.
InitializeMemoized ==
    /\ [](/\ \A k \in 1..Len(cores) : Cardinality(inFlight(k)) <= 1
          /\ \A c \in CallIds :
                calls[c].op = "initialize" /\ calls[c].pc = "done" /\ calls[c].awaiting # 0 =>
                    /\ Settled(calls[c].awaiting)
                    /\ calls[c].outcome = attempts[calls[c].awaiting].pc)
    /\ [][\A c \in CallIds :
            initializeBegins(c) =>
                /\ inFlight(calls'[c].core) # {} =>
                      /\ attempts' = [attempts EXCEPT
                                         ![calls'[c].awaiting].waiters = Append(@, c)]
                      /\ calls'[c].awaiting \in inFlight(calls'[c].core)
                      /\ ~calls'[c].started
                /\ cores[calls'[c].core].isInitialized =>
                      /\ UNCHANGED <<attempts, handles, cores, essentiaLoaded>>
                      /\ calls'[c].pc = "done" /\ calls'[c].outcome = "resolved"]_vars

\* C7: two initialize() calls have awaited one attempt, which only the first
\* of them started (the second came while it was in flight), and both have
\* resolved with it.
InitializationShared ==
    \E c \in CallIds, d \in CallIds :
        /\ c # d
        /\ calls[c].op = "initialize" /\ calls[d].op = "initialize"
        /\ calls[c].pc = "done" /\ calls[d].pc = "done"
        /\ calls[c].awaiting # 0 /\ calls[c].awaiting = calls[d].awaiting
        /\ calls[c].started /\ ~calls[d].started
        /\ calls[c].outcome = "resolved" /\ calls[d].outcome = "resolved"

\* The last attempt of core k to load the engine, 0 if it has made none.
lastAttempt(k) ==
    LET made == {p \in 1..Len(attempts) : attempts[p].core = k}
    IN  IF made = {} THEN 0 ELSE CHOOSE p \in made : \A q \in made : q <= p

\* C10: on a host with WebAssembly, a core whose last attempt to load the
\* engine has failed is uninitialized, holds no engine handle and holds no
\* memoized promise (so that the next initialize() starts a fresh attempt).
FailedInitializeResets ==
    \A k \in 1..Len(cores) :
        env.wasm /\ lastAttempt(k) # 0 /\ attempts[lastAttempt(k)].pc = "rejected" =>
            /\ ~cores[k].isInitialized
            /\ cores[k].essentia = 0
            /\ cores[k].initializationPromise = 0

\* The handler of request r holds what ensureCore() has returned to it.
coreObtained(r) == handlers[r].pc = "ensureReturn" /\ ~handlers[r].failed

\* C8: in the worker, a handler gets a core from ensureCore() only after that
\* core's initialize() has completed: the core it gets is not null and has no
\* attempt in flight, and a handler of INIT, which goes on to post
\* `initialized`, gets a core that is available.
CoreObtainedInitialized ==
    \A r \in DOMAIN handlers :
        coreObtained(r) =>
            /\ handlers[r].instance # 0
            /\ inFlight(handlers[r].instance) = {}
            /\ handlers[r].command = "INIT" => isAvailable(handlers[r].instance)

\* The messages with this id and one of these events that the worker has posted.
posted(id, events) ==
    {j \in 1..Len(outbox) : outbox[j].id = id /\ outbox[j].event \in events}

\* C9 as stated: every request whose handler has ended has got exactly one
\* `result` or `error` event with its id, and no request has got two.
OneTerminalEvent ==
    \A r \in DOMAIN handlers :
        /\ Cardinality(posted(r, {"result", "error"})) <= 1
        /\ handlers[r].pc = "done" => Cardinality(posted(r, {"result", "error"})) = 1

ClosingEvents == {"result", "error", "initialized"}

\* The continuation at the head of the queue is one that can run.
headRuns ==
    \/ microQ = <<>>
    \/ LET r == Head(microQ)
       IN  \/ calls[r].op = "initialize" /\ calls[r].pc = "awaitInit"
           \/ handlers[r].pc \in {"ensureReturn", "cleanup"}
           \/ handlers[r].pc \in {"ensureInit", "detect"} /\ calls[r].pc = "done"

\* The handler of request r, which has not ended, has its continuation in the
\* queue or awaits a call that awaits a timer or an attempt in flight.
notStranded(r) ==
    LET queued == \E j \in 1..Len(microQ) : microQ[j] = r
    IN  CASE handlers[r].pc \in {"ensureReturn", "cleanup"} -> queued
          [] handlers[r].pc = "ensureInit" ->
               \/ queued
               \/ calls[r].pc = "awaitInit" /\ ~Settled(calls[r].awaiting)
          [] handlers[r].pc = "detect" ->
               \/ queued
               \/ calls[r].pc \in {"frames", "onsetFrames", "tempo"}
          [] OTHER -> TRUE

\* C9, amended: with `initialized` counted as a terminal event too, no request
\* ever has two terminal events, a request has one exactly when its handler
\* has ended, only INIT is answered with `initialized`, and a handler that
\* has not ended is never left without a continuation to run.
OneClosingEvent ==
    /\ headRuns
    /\ \A r \in DOMAIN handlers :
          /\ Cardinality(posted(r, ClosingEvents)) <= 1
          /\ handlers[r].pc = "done" <=> Cardinality(posted(r, ClosingEvents)) = 1
          /\ posted(r, {"initialized"}) # {} => handlers[r].command = "INIT"
          /\ notStranded(r)

\* C9: every request has been answered, one of them an INIT with `initialized`,
\* one with `result` and one with `error`.
AllAnswered ==
    /\ \A r \in DOMAIN handlers : handlers[r].pc = "done"
    /\ \E r \in DOMAIN handlers : posted(r, {"initialized"}) # {}
    /\ \E r \in DOMAIN handlers : posted(r, {"result"}) # {}
    /\ \E r \in DOMAIN handlers : posted(r, {"error"}) # {}

\* Request r arrives in this step with a command that needs the core.
arrives(r) ==
    /\ handlers[r].pc = "none"
    /\ handlers'[r].command \in {"INIT", "DETECT_ONSETS", "DETECT_BPM", "DETECT_STRUCTURE"}

\* A request has been answered with `error` because core.initialize() rejected.
initFailedBefore ==
    \E q \in DOMAIN handlers :
        handlers[q].pc = "done" /\ handlers[q].failed /\ posted(q, {"error"}) # {}

\* The worker holds no initialized core and no attempt to load one is in flight.
workerUninitialized ==
    \/ workerCore = 0
    \/ ~cores[workerCore].isInitialized /\ inFlight(workerCore) = {}

\* The worker posts `initialized` in this step.
postsInitialized ==
    /\ Len(outbox') > Len(outbox)
    /\ outbox'[Len(outbox')].event = "initialized"

\* C11: once a request has been answered with `error` because initialize()
\* rejected, a later INIT or DETECT_* request that finds the worker without an
\* initialized core starts a new attempt, and a later `initialized` event is
\* posted only when some attempt has succeeded.
RetryAfterFailure ==
    [][initFailedBefore =>
          /\ \A r \in DOMAIN handlers :
                arrives(r) /\ workerUninitialized => Len(attempts') = Len(attempts) + 1
          /\ postsInitialized =>
                \E p \in 1..Len(attempts) : attempts[p].pc = "resolved"]_vars


\* Call c begins in this step, as a call of cleanup().
cleanupBegins(c) == calls[c].op = "none" /\ calls'[c].op = "cleanup"

\* isAvailable() of core k after this step.
availableNext(k) == cores'[k].isInitialized /\ cores'[k].essentia # 0

\* Attempt p resolves in this step.
attemptResolves(p) ==
    /\ p > Len(attempts) \/ attempts[p].pc # "resolved"
    /\ attempts'[p].pc = "resolved"

\* C12: cleanup() resolves at once; on a core that holds an engine it retires
\* the handle (whether destroy returned or threw) and leaves the core
\* unavailable and as it was constructed; on a core without an engine it
\* changes nothing.  initialize() on a core that cleanup() has reset starts a
\* fresh attempt, and an attempt that resolves leaves its core available with
\* a new live handle.
CleanupThenInitialize ==
    [][/\ \A c \in CallIds :
             cleanupBegins(c) =>
                 /\ calls'[c].pc = "done" /\ calls'[c].outcome = "resolved"
                 /\ IF cores[calls'[c].core].essentia # 0
                    THEN /\ ~availableNext(calls'[c].core)
                         /\ cores'[calls'[c].core] = NoCore
                         /\ handles'[cores[calls'[c].core].essentia]
                               \in {"destroyed", "destroyFailed"}
                    ELSE UNCHANGED <<cores, handles, attempts, essentiaLoaded>>
       /\ \A c \in CallIds :
             initializeBegins(c) /\ cores[calls'[c].core] = NoCore =>
                 /\ Len(attempts') = Len(attempts) + 1
                 /\ calls'[c].started
                 /\ calls'[c].awaiting = Len(attempts')
       /\ \A p \in 1..Len(attempts') :
             attemptResolves(p) =>
                 /\ availableNext(attempts'[p].core)
                 /\ Len(handles') = Len(handles) + 1
                 /\ cores'[attempts'[p].core].essentia = Len(handles')
                 /\ handles'[Len(handles')] = "live"]_vars

\* C12: a core was initialized, cleanup() ran on it while the engine's destroy
\* threw, a following initialize() loaded a second engine, and the core is
\* available again.
Reinitialized ==
    \E c \in CallIds, d \in CallIds :
        /\ calls[c].op = "cleanup" /\ calls[d].op = "initialize"
        /\ c < d /\ calls[d].pc = "done" /\ calls[d].outcome = "resolved"
        /\ calls[d].started /\ calls[d].awaiting = 2
        /\ handles = <<"destroyFailed", "live">>
        /\ cores[1].essentia = 2
        /\ isAvailable(1)


\* Every request that has arrived has been answered.
allHandlersDone == \A r \in DOMAIN handlers : handlers[r].pc \in {"none", "done"}

\* The request answered last is a CLEANUP.
cleanupAnsweredLast ==
    /\ outbox # <<>>
    /\ handlers[outbox[Len(outbox)].id].command = "CLEANUP"

\* C13: in the worker, once every handler has finished and the request
\* answered last is a CLEANUP, no engine handle made by any initialization is
\* still live.
HandlesReleased ==
    allHandlersDone /\ cleanupAnsweredLast =>
        \A h \in 1..Len(handles) : handles[h] # "live"


\* C14: in every state between operations, a core's isInitialized is true
\* exactly when it holds an engine handle; the handle it holds is live and
\* every live handle is held by a core, so isAvailable() is true exactly when
\* an initialization of the core has succeeded and no cleanup() has retired
\* its engine since.
FlagMatchesHandle ==
    /\ \A k \in 1..Len(cores) :
          /\ cores[k].isInitialized <=> cores[k].essentia # 0
          /\ isAvailable(k) <=>
                \E h \in 1..Len(handles) : handles[h] = "live" /\ cores[k].essentia = h
    /\ \A h \in 1..Len(handles) :
          handles[h] = "live" <=> \E k \in 1..Len(cores) : cores[k].essentia = h

\* C14: a core that was initialized and cleaned up is being initialized again:
\* its first engine is destroyed, the second attempt is in flight, and it is
\* not available.
UnavailableBetween ==
    /\ handles = <<"destroyed">>
    /\ inFlight(1) = {2}
    /\ ~isAvailable(1)
    /\ \E c \in CallIds : calls[c].op = "cleanup" /\ calls[c].pc = "done"


\* What the client makes of a request when this event settles it.
outcomeOf(event) == IF event = "error" THEN "rejected" ELSE "resolved"

\* The client handles a message in this step.
handlesMessage ==
    /\ client' # client
    /\ client'.nextId = client.nextId
    /\ client'.terminated = client.terminated

\* C15: a message whose id has no pending entry changes nothing in the client;
\* a progress event of a pending request counts one call of its onProgress and
\* leaves it pending; any other event of a pending request settles that
\* request alone (`error` rejects, the others resolve) and removes its entry;
\* the pending entries are, until cleanup() clears the table, those of the
\* requests not settled, the messages of
\* the worker that have reached the client have settled their requests, and a
\* request with an unknown command is answered with `error` and is never
\* resolved.
ClientCorrelation ==
    /\ [](/\ \A id \in RequestIds :
                /\ id \in client.pending => client.outcome[id] = "pending"
                /\ client.outcome[id] = "pending" => id \in client.pending \/ client.terminated
          /\ \A j \in 1..client.delivered :
                client.outcome[outbox[j].id] = outcomeOf(outbox[j].event)
          /\ \A r \in RequestIds :
                handlers[r].command = "UNKNOWN" =>
                    /\ posted(r, Events) = posted(r, {"error"})
                    /\ Cardinality(posted(r, {"error"})) = 1
                    /\ client.outcome[r] \in {"pending", "rejected"})
    /\ [][handlesMessage =>
            LET m == client'.last
                rest == [client' EXCEPT !.last = client.last, !.delivered = client.delivered]
            IN  /\ client'.delivered \in {client.delivered, client.delivered + 1}
                /\ IF m.id \notin client.pending
                   THEN rest = client
                   ELSE IF m.event = "progress"
                   THEN rest = [client EXCEPT !.progress[m.id] = @ + 1]
                   ELSE rest = [client EXCEPT !.outcome[m.id] = outcomeOf(m.event),
                                              !.pending = @ \ {m.id}]]_vars

\* C15: the request with an unknown command has been rejected, another request
\* is pending after a call of its onProgress, a third has been resolved, and
\* the message handled last had no pending entry.
ClientSettled ==
    /\ \E r \in RequestIds : handlers[r].command = "UNKNOWN" /\ client.outcome[r] = "rejected"
    /\ \E r \in RequestIds : client.outcome[r] = "pending" /\ client.progress[r] = 1
    /\ \E r \in RequestIds : client.outcome[r] = "resolved"
    /\ client.last.id \in MessageIds \ client.pending
    /\ client.last.event = "result"
    /\ client.delivered = 2


\* The final frame index of call c: the boundary detectBoundaries pushes last.
finalFrame(c) == Len(calls[c].chroma) - 1

\* C16: the merge loop of detectBoundaries deletes interior boundaries only:
\* the sections of every detectSongStructure call begin at frame 0 and end at
\* the final frame index.
EndpointsKept ==
    \A c \in CallIds :
        (structureLabeled(c) \/ structureResult(c)) /\ calls[c].boundaries # <<>> =>
            LET b == calls[c].boundaries
            IN  /\ b[1].startTime = <<0, input.sampleRate>>
                /\ b[Len(b)].endTime = <<finalFrame(c) * hopSize, input.sampleRate>>


\* The frames at which the novelty function of call c has a strict local peak
\* above the threshold.
peakFramesOf(c) ==
    LET kernelSize == kernelSizeOf(input.sampleRate, hopSize)
        nov == noveltyFunctionOf(buildSimilarityMatrix(calls[c].chroma), kernelSize)
        threshold10 == calculateThreshold(nov, 3)
    IN  {i + kernelSize : i \in {x \in 1..(Len(nov) - 2) : isPeak(nov, threshold10, x)}}

SensitivityLowersThreshold ==
    \A c \in CallIds :
        onsetResult(c) =>
            \A s1 \in Sensitivities, s2 \in Sensitivities :
                s1 <= s2 =>
                    LET flux == calls[c].onsetFunction
                        t1 == calculateThreshold(flux, s1)
                        t2 == calculateThreshold(flux, s2)
                    IN  /\ t2 <= t1
                        /\ \A i \in 1..(Len(flux) - 2) :
                              isPeak(flux, t1, i) => isPeak(flux, t2, i)


\* floor((N - frameSize) / hopSize) + 1 for a buffer of N >= frameSize samples,
\* 0 for a shorter one.
framesExpected(length) ==
    IF length >= frameSize THEN ((length - frameSize) \div hopSize) + 1 ELSE 0

\* C19: a detectOnsets call that has returned has computed the flux of
\* floor((N - frameSize) / hopSize) + 1 frames, and a detectSongStructure call
\* that has finished its frame loop has extracted the features of as many
\* (none if N < frameSize).
FrameCount ==
    \A c \in CallIds :
        /\ onsetResult(c) => Len(calls[c].onsetFunction) = framesExpected(input.length)
        /\ calls[c].op = "detectSongStructure" /\ calls[c].labeled =>
              /\ Len(calls[c].chroma) = framesExpected(input.length)
              /\ Len(calls[c].mfcc) = framesExpected(input.length)
              /\ Len(calls[c].energy) = framesExpected(input.length)


\* The frames of the buffer that call c has given to arrayToVector.
framesTried(c) ==
    IF calls[c].op = "detectOnsets"
    THEN Min(calls[c].i + 1, onsetFramesOf(input.length))
    ELSE calls[c].i

\* arrayToVector has thrown during call c: on a frame, or in the tempo step.
conversionThrew(c) ==
    \/ threw(c, "arrayToVector")
    \/ \E j \in 1..framesTried(c) : input.faults[j].conv

\* C20: a detectOnsets or detectSongStructure call that found the engine
\* initialized and during which arrayToVector threw has rejected: it has
\* returned no result.
ConversionErrorPropagates ==
    \A c \in CallIds :
        /\ calls[c].op \in {"detectOnsets", "detectSongStructure"}
        /\ calls[c].pc = "done"
        /\ calls[c].error # "notInitialized"
        /\ conversionThrew(c)
        => calls[c].outcome = "rejected"

\* C21: a detectSongStructure call that found the engine initialized has, at
\* every await and after its frame loop, one chroma vector, one MFCC vector
\* and one energy for each frame it has read, every chroma vector has 12
\* elements, and the call leaves its frame loop only with all of its frames
\* read: no failure of Chromagram, of the MFCC pipeline or of RMS ends it.
ExtractionNeverAborts ==
    \A c \in CallIds :
        calls[c].op = "detectSongStructure" /\ calls[c].error # "notInitialized" =>
            /\ Len(calls[c].chroma) = calls[c].i
            /\ Len(calls[c].mfcc) = calls[c].i
            /\ Len(calls[c].energy) = calls[c].i
            /\ \A j \in 1..Len(calls[c].chroma) : Len(calls[c].chroma[j]) = chromaSize
            /\ IF calls[c].pc = "frames"
               THEN calls[c].i < numFramesOf(input.length)
               ELSE /\ calls[c].labeled
                    /\ calls[c].i = Max(0, numFramesOf(input.length))

\* C21: a call that has read all MaxFrames frames of a buffer on which both
\* Chromagram and the MFCC pipeline with its RMS fallback threw at two frames
\* or more.
ExtractionSurvivedFaults ==
    \E c \in CallIds :
        /\ structureLabeled(c)
        /\ calls[c].i = MaxFrames
        /\ \E j \in 1..MaxFrames, k \in 1..MaxFrames :
              /\ j < k
              /\ \A f \in {j, k} :
                    /\ ~input.faults[f].conv
                    /\ input.faults[f].chroma = "fail"
                    /\ input.faults[f].mfcc = "throwRms"

\* The similarity matrix detectSongStructure builds for call c (line 647).
similarityOf(c) == buildSimilarityMatrix(calls[c].chroma)

\* C22: the similarity matrix of every call that has left its frame loop has
\* one row and one column for each frame, S[i][j] = S[j][i] for all frames
\* i and j, and S[i][i] = 1 for every frame i.
SimilarityMatrixShape ==
    \A c \in CallIds :
        structureLabeled(c) =>
            \E S \in {similarityOf(c)} :
                /\ Len(S) = calls[c].i
                /\ \A i \in 1..Len(S) :
                      /\ Len(S[i]) = calls[c].i
                      /\ S[i][i] = 1
                      /\ \A j \in 1..Len(S) : S[i][j] = S[j][i]

\* The buffer is silent and ten seconds long, and the options are
\* maxSections = 8 and minSectionDuration = 5.
silentTenSeconds ==
    /\ \A j \in 1..Len(input.frames) : input.frames[j] = 0
    /\ input.length = 10 * input.sampleRate
    /\ input.maxSections = 8
    /\ input.minSectionDuration = 5

\* C23: every section detectSongStructure returns for a silent buffer of ten
\* seconds, with maxSections = 8 and minSectionDuration = 5, is labelled
\* Break or Bridge.
SilentLabelsLow ==
    \A c \in CallIds :
        structureResult(c) /\ silentTenSeconds =>
            \A i \in 1..Len(calls[c].boundaries) :
                calls[c].boundaries[i].label.name \in {"Break", "Bridge"}

\* The frames the result of call c reports as onsets.
onsetFramesOfResult(c) ==
    {calls[c].times[j][1] \div hopSize : j \in 1..Len(calls[c].times)}

\* Frame i of call c is a strict local maximum of the flux above the
\* threshold (the flux of frame i is onsetFunction[i + 1]).
fluxPeak(c, i) ==
    LET flux == calls[c].onsetFunction
    IN  /\ i >= 1 /\ i <= Len(flux) - 2
        /\ 10 * flux[i + 1] > calculateThreshold(flux, calls[c].sensitivity10)
        /\ flux[i + 1] > flux[i]
        /\ flux[i + 1] > flux[i + 2]

\* C24: in every result of detectOnsets, frame i is reported iff its flux is
\* a strict local maximum above the threshold and every onset reported before
\* it lies at least minDistanceFrames frames back; the onsets are reported
\* once each and in increasing order, the first peak is among them, and frame
\* 0 and the last frame are not.
PeakPicking ==
    \A c \in CallIds :
        onsetResult(c) =>
            LET A == onsetFramesOfResult(c)
                n == Len(calls[c].onsetFunction)
                minDistanceFrames ==
                    (calls[c].minDistanceMs * input.sampleRate) \div (1000 * hopSize)
                peaks == {i \in 0..(n - 1) : fluxPeak(c, i)}
            IN  /\ \A i \in 0..(n - 1) :
                      i \in A <=>
                          /\ fluxPeak(c, i)
                          /\ \A a \in A : a < i => i - a >= minDistanceFrames
                /\ A \subseteq 1..(n - 2)
                /\ Len(calls[c].times) = Cardinality(A)
                /\ \A j \in 1..(Len(calls[c].times) - 1) :
                      calls[c].times[j][1] < calls[c].times[j + 1][1]
                /\ \A i \in peaks : (\A q \in peaks : i <= q) => i \in A

\* C24: a result in which a peak two frames after an onset was passed over
\* and the peak exactly minDistanceFrames after that onset was reported.
PeakPassedOver ==
    \E c \in CallIds :
        /\ onsetResult(c)
        /\ \E a \in onsetFramesOfResult(c) :
              LET minDistanceFrames ==
                      (calls[c].minDistanceMs * input.sampleRate) \div (1000 * hopSize)
              IN  /\ minDistanceFrames > 2
                  /\ fluxPeak(c, a + 2)
                  /\ a + 2 \notin onsetFramesOfResult(c)
                  /\ a + minDistanceFrames \in onsetFramesOfResult(c)

\* The frames the frame loop of call c reads in a step, a step being the code
\* that runs from one await to the next.
framesReadInStep(c) == calls'[c].i - calls[c].i

\* The frames the stages after the frame loop go over in a step.  The step
\* that ends the loop of detectSongStructure builds the similarity matrix over
\* every chroma vector, finds the boundaries and labels them (lines 647-671);
\* the one that ends the loop of detectOnsets sorts and scans the whole onset
\* function (lines 413-430).
framesAnalysedInStep(c) ==
    IF calls'[c].op = "detectSongStructure" /\ calls'[c].labeled /\ ~calls[c].labeled
    THEN Len(calls'[c].chroma)
    ELSE IF /\ calls'[c].op = "detectOnsets"
            /\ calls'[c].outcome = "resolved" /\ calls[c].outcome # "resolved"
    THEN Len(calls'[c].onsetFunction)
    ELSE 0

chunkSizeOf(c) ==
    IF calls'[c].op = "detectOnsets" THEN onsetChunkSize ELSE structureChunkSize

\* C25: between two yields a detectOnsets call reads at most 10 frames and a
\* detectSongStructure call at most 5 in the frame loop, and the stages after
\* the loop go over no more frames than that without yielding.
YieldCadence ==
    [][\A c \in CallIds :
          calls'[c].op \in {"detectOnsets", "detectSongStructure"} =>
              /\ framesReadInStep(c) <= chunkSizeOf(c)
              /\ framesAnalysedInStep(c) <= chunkSizeOf(c)]_vars

\* The names of the labels of the sections call c has labelled.
labelNamesOf(c) ==
    {calls[c].boundaries[i].label.name : i \in 1..Len(calls[c].boundaries)}

\* C26: every labelled section carries its 1-based index and the name of the
\* first rule that matches it: Intro for the first section starting before
\* 10% of the duration; else Outro for the last section starting after 80%;
\* else Chorus for a normalized energy above 0.7; else Verse above 0.4; else
\* below 0.3 Bridge after 50% of the duration and Break before; else Verse.
LabelRules ==
    \A c \in CallIds :
        calls[c].labeled =>
            LET b == calls[c].boundaries
            IN  \A i \in 1..Len(b) :
                    LET name == b[i].label.name
                        energy == b[i].confidence
                        early == i = 1 /\ positionBelow(b[i].startTime, input.duration, 1)
                        late == i = Len(b) /\ positionAbove(b[i].startTime, input.duration, 8)
                        placed == early \/ late
                        high == 10 * energy[1] > 7 * energy[2]
                        medium == 10 * energy[1] > 4 * energy[2]
                        low == 10 * energy[1] < 3 * energy[2]
                        pastHalf == positionAbove(b[i].startTime, input.duration, 5)
                    IN  /\ b[i].label.index = i
                        /\ name \in {"Intro", "Outro", "Chorus", "Verse", "Bridge", "Break"}
                        /\ name = "Intro" <=> early
                        /\ name = "Outro" <=> ~early /\ late
                        /\ name = "Chorus" <=> ~placed /\ high
                        /\ name = "Verse" <=> ~placed /\ ~high /\ (medium \/ ~low)
                        /\ name = "Bridge" <=> ~placed /\ ~medium /\ low /\ pastHalf
                        /\ name = "Break" <=> ~placed /\ ~medium /\ low /\ ~pastHalf

\* C26: a list of six sections with one label of each name, whose first
\* section has the highest energy and is Intro all the same, and one of whose
\* sections is Verse for an energy between 0.3 and 0.4.
EveryLabelGiven ==
    \E c \in CallIds :
        /\ calls[c].labeled
        /\ labelNamesOf(c) = {"Intro", "Outro", "Chorus", "Verse", "Bridge", "Break"}
        /\ RatEq(calls[c].boundaries[1].confidence, <<1, 1>>)
        /\ \E i \in 1..Len(calls[c].boundaries) :
              LET energy == calls[c].boundaries[i].confidence
              IN  /\ calls[c].boundaries[i].label.name = "Verse"
                  /\ 10 * energy[1] >= 3 * energy[2]
                  /\ 10 * energy[1] <= 4 * energy[2]

\* The mean of the energy profile of call c over the frames of its section i,
\* startFrame..endFrame - 1 (0 if there is no such frame).  A section's
\* startTime is startFrame * hopSize over the sample rate.
ownMeanEnergy(c, i) ==
    LET startFrame == calls[c].boundaries[i].startTime[1] \div hopSize
        endFrame == calls[c].boundaries[i].endTime[1] \div hopSize
        own == {f \in startFrame..(endFrame - 1) : f >= 0 /\ f < Len(calls[c].energy)}
        sum == SumSeq([x \in 1..Cardinality(own) |-> calls[c].energy[startFrame + x]])
    IN  IF own = {} THEN <<0, 1>> ELSE <<sum, Cardinality(own)>>

\* C27: the confidence of every labelled section is the mean energy of the
\* section's own frames over the greatest such mean of the sections of the
\* call, and 0 if that greatest mean is 0.
SectionEnergyOwnFrames ==
    \A c \in CallIds :
        calls[c].labeled /\ calls[c].boundaries # <<>> =>
            LET sections == 1..Len(calls[c].boundaries)
                greatest == CHOOSE m \in {ownMeanEnergy(c, i) : i \in sections} :
                                \A i \in sections : RatLeq(ownMeanEnergy(c, i), m)
            IN  \A i \in sections :
                    LET mean == ownMeanEnergy(c, i)
                    IN  RatEq(calls[c].boundaries[i].confidence,
                              IF greatest[1] > 0
                              THEN <<mean[1] * greatest[2], mean[2] * greatest[1]>>
                              ELSE <<0, 1>>)

\* C28: every MFCC vector a detectSongStructure call has appended has 13
\* elements, whether or not the engine failed on its frame.
MfccLength ==
    \A c \in CallIds :
        calls[c].op = "detectSongStructure" =>
            \A j \in 1..Len(calls[c].mfcc) : Len(calls[c].mfcc[j]) = mfccSize

\* C30: every section of every result of detectSongStructure has
\* 0 <= startSample < endSample <= buffer.length, and the last section does
\* not end at a negative frame.
SectionsWellFormed ==
    \A c \in CallIds :
        structureResult(c) =>
            LET b == calls[c].boundaries
            IN  /\ \A i \in 1..Len(b) :
                      /\ 0 <= b[i].startSample
                      /\ b[i].startSample < b[i].endSample
                      /\ b[i].endSample <= input.length
                /\ b # <<>> => b[Len(b)].endTime[1] >= 0

\* C29: a promise of the client that is not settled has its entry in the
\* pending table, through which alone a message of the worker resolves or
\* rejects it: no request is left that can never be settled.
NoPromiseOrphaned ==
    \A id \in RequestIds :
        client.outcome[id] = "pending" => id \in client.pending

=============================================================================
